---- MODULE Spec2Model ----
(***************************************************************************)
(* Model of the equation-Wordle solver: the equation validator, the        *)
(* constraint builder, the consistency checker and the backtracking        *)
(* candidate search, together with the application state that drives them. *)
(* Strings are sequences of one-character strings.                         *)
(***************************************************************************)
EXTENDS Integers, Sequences, FiniteSets, TLC

VARIABLES
    length,        \* state.length: the configured equation length
    maxResults,    \* state.maxResults: the configured result cap
    guesses,       \* state.guesses: the history of GuessRecords
    mode4,         \* state.mode4: multi-target mode
    cancelled,     \* state.cancelledRef.value
    pc,            \* where the application is: "idle", "running", "yielded",
                   \* "waiting" (for the timer of the synchronous search) or "done"
    engine,        \* which search was started last: "async" (generateCandidatesAsync),
                   \* "sync" (generateCandidates), "multi" (search4ModeAsync),
                   \* "solver" (generateCandidates of solver.js) or "none"
    searched,      \* the history the running search was started on
    options,       \* the options the running search was called with
    constraints,   \* the ConstraintSet the running search was called with
    stack,         \* the dfs calls that are inside their loop, innermost last
    pending,       \* the dfs call about to be entered (at most one)
    results,       \* results of the running search, in discovery order
    dfsCallCount,  \* dfsCallCount of the running search
    returned,      \* the list the last finished search returned
    progress,      \* the progress events the running search has handed to
                   \* onProgress, in the order of the calls
    targets,       \* multi-target mode: the four per-target searches
    elapsed,       \* solver.js: Date.now() - startTime, in milliseconds
    expr,          \* string handed to the validator or to the checker
    pattern,       \* feedback pattern handed to the checker
    verdict,       \* outcome of the validator call: "valid", "invalid" or "none"
    report,        \* what checkPatternConsistency returned
    checkedBy      \* the file whose checkPatternConsistency was called, "none" before

appVars == <<length, maxResults, guesses, mode4>>

searchVars ==
    <<engine, searched, options, constraints, stack, pending, results, dfsCallCount,
      returned, progress>>

sideVars == <<targets, elapsed>>

callVars == <<expr, pattern, verdict, report, checkedBy>>

vars == <<appVars, cancelled, pc, searchVars, callVars, sideVars>>

(***************************************************************************)
(* Bounds of the model.                                                    *)
(***************************************************************************)
\* longest string handed to the validator on its own
MaxExprLen == 7
\* longest history the application is driven to
MaxGuesses == 2
\* number of dfs calls after which a search is followed no further
MaxCalls == 1200
\* the largest length entered in the length field or carried by a snapshot
MaxLen == 6
\* the length carried by a snapshot that importState takes beyond MaxLength
LongLength == 110
\* number of dfs calls a search of that length is followed for
MaxCallsLong == 2200
\* number of dfs calls each search of multi-target mode is followed for
MaxCallsEach == 20

\* milliseconds followed on the clock of the search of solver.js
MaxElapsed == 2

(***************************************************************************)
(* Program constants.                                                      *)
(***************************************************************************)
\* smallest configurable length, also the validator's minimum length
MinLength == 5
\* largest configurable length
MaxLength == 20
\* default result cap
DefaultMaxResults == 200
\* state.length before the user changes it
DefaultLength == 12
\* number of dfs calls between two yield checks
YieldEvery == 1000

(***************************************************************************)
(* Alphabet.                                                               *)
(***************************************************************************)
\* "0123456789+-*/=" in the order the code iterates it
AlphabetSeq ==
    <<"0", "1", "2", "3", "4", "5", "6", "7", "8", "9", "+", "-", "*", "/", "=">>

Alphabet == {AlphabetSeq[i] : i \in 1..Len(AlphabetSeq)}

Digits == {"0", "1", "2", "3", "4", "5", "6", "7", "8", "9"}

Operators == {"+", "-", "*", "/"}

DigitValue ==
    [c \in Digits |-> (CHOOSE i \in 1..10 : AlphabetSeq[i] = c) - 1]

\* number of occurrences of character c in string s
RECURSIVE CountChar(_, _)
CountChar(s, c) ==
    IF s = <<>> THEN 0
    ELSE (IF Head(s) = c THEN 1 ELSE 0) + CountChar(Tail(s), c)

\* index of the first occurrence of c in s, 0 when there is none
RECURSIVE IndexOf(_, _, _)
IndexOf(s, c, i) ==
    IF i > Len(s) THEN 0
    ELSE IF s[i] = c THEN i
    ELSE IndexOf(s, c, i + 1)

(***************************************************************************)
(* Evaluation of the left side: Function("return " + left)().              *)
(* The left side holds only digits and + - * /, so the JavaScript source   *)
(* text consists of numeric literals, punctuators and comments.  Numbers   *)
(* are doubles; they are modelled as exact fractions n/d plus one          *)
(* absorbing non-finite value (Infinity, -Infinity, NaN).                  *)
(***************************************************************************)
Fin(n, d) == [fin |-> TRUE, n |-> n, d |-> d]

NonFinite == [fin |-> FALSE, n |-> 0, d |-> 1]

NumNeg(a) == IF a.fin THEN Fin(0 - a.n, a.d) ELSE NonFinite

NumAdd(a, b) ==
    IF a.fin /\ b.fin THEN Fin(a.n * b.d + b.n * a.d, a.d * b.d) ELSE NonFinite

NumSub(a, b) ==
    IF a.fin /\ b.fin THEN Fin(a.n * b.d - b.n * a.d, a.d * b.d) ELSE NonFinite

NumMul(a, b) ==
    IF a.fin /\ b.fin THEN Fin(a.n * b.n, a.d * b.d) ELSE NonFinite

\* x/0 is Infinity, -Infinity or NaN
NumDiv(a, b) ==
    IF a.fin /\ b.fin /\ b.n # 0 THEN Fin(a.n * b.d, a.d * b.n) ELSE NonFinite

\* leftValue === rightValue for a finite leftValue and an integer rightValue
NumEqualsInt(a, r) == a.fin /\ a.n = r * a.d

\* value of a run of decimal digits read in base b
RECURSIVE DigitsValue(_, _, _)
DigitsValue(ds, b, acc) ==
    IF ds = <<>> THEN acc
    ELSE DigitsValue(Tail(ds), b, acc * b + DigitValue[Head(ds)])

\* a numeric literal: a leading 0 followed by octal digits only is a legacy
\* octal literal of non-strict code; any other digit run is decimal
LiteralValue(ds) ==
    IF Len(ds) > 1 /\ ds[1] = "0" /\ \A i \in 1..Len(ds) : DigitValue[ds[i]] <= 7
    THEN DigitsValue(ds, 8, 0)
    ELSE DigitsValue(ds, 10, 0)

\* last index of the digit run that starts at i
RECURSIVE DigitRunEnd(_, _)
DigitRunEnd(s, i) ==
    IF i < Len(s) /\ s[i + 1] \in Digits THEN DigitRunEnd(s, i + 1) ELSE i

\* index of the "*" of the first "*/" at or after i, 0 when there is none
RECURSIVE CommentEnd(_, _)
CommentEnd(s, i) ==
    IF i >= Len(s) THEN 0
    ELSE IF s[i] = "*" /\ s[i + 1] = "/" THEN i
    ELSE CommentEnd(s, i + 1)

TokNum(v) == [k |-> "num", v |-> v, c |-> ""]

TokOp(c) == [k |-> "op", v |-> 0, c |-> c]

LexFail == [ok |-> FALSE, toks |-> <<>>]

\* the token sequence of the source text s from index i on.  "//" starts a
\* comment that runs to the end, "/*" one that must be closed by "*/"; "++"
\* and "--" are single (update) tokens; a "/" that does not follow a number
\* starts a regular-expression literal, whose value is never a finite number.
RECURSIVE JsLex(_, _, _)
JsLex(s, i, toks) ==
    IF i > Len(s) THEN [ok |-> TRUE, toks |-> toks]
    ELSE
        LET c == s[i]
            nxt == IF i < Len(s) THEN s[i + 1] ELSE ""
        IN  IF c = "/" /\ nxt = "/" THEN [ok |-> TRUE, toks |-> toks]
            ELSE IF c = "/" /\ nxt = "*" THEN
                LET j == CommentEnd(s, i + 2)
                IN  IF j = 0 THEN LexFail ELSE JsLex(s, j + 2, toks)
            ELSE IF c \in Digits THEN
                LET j == DigitRunEnd(s, i)
                IN  JsLex(s, j + 1, Append(toks, TokNum(LiteralValue(SubSeq(s, i, j)))))
            ELSE IF c = "/" THEN
                IF toks # <<>> /\ toks[Len(toks)].k = "num"
                THEN JsLex(s, i + 1, Append(toks, TokOp("/")))
                ELSE LexFail
            ELSE IF c \in {"+", "-"} /\ nxt = c THEN
                JsLex(s, i + 2, Append(toks, [k |-> "upd", v |-> 0, c |-> c]))
            ELSE JsLex(s, i + 1, Append(toks, TokOp(c)))

ParseFail == [ok |-> FALSE, val |-> NonFinite, next |-> 0]

IsOp(toks, i, cs) == i <= Len(toks) /\ toks[i].k = "op" /\ toks[i].c \in cs

\* UnaryExpression: any number of prefix + and - before a numeric literal
RECURSIVE JsUnary(_, _)
JsUnary(toks, i) ==
    IF i > Len(toks) THEN ParseFail
    ELSE IF toks[i].k = "num" THEN [ok |-> TRUE, val |-> Fin(toks[i].v, 1), next |-> i + 1]
    ELSE IF IsOp(toks, i, {"+", "-"}) THEN
        LET r == JsUnary(toks, i + 1)
        IN  IF ~r.ok THEN ParseFail
            ELSE [ok |-> TRUE,
                  val |-> IF toks[i].c = "-" THEN NumNeg(r.val) ELSE r.val,
                  next |-> r.next]
    ELSE ParseFail

\* MultiplicativeExpression, left to right, acc being the value so far
RECURSIVE JsMulRest(_, _, _)
JsMulRest(toks, i, acc) ==
    IF IsOp(toks, i, {"*", "/"}) THEN
        LET r == JsUnary(toks, i + 1)
        IN  IF ~r.ok THEN ParseFail
            ELSE JsMulRest(toks, r.next,
                           IF toks[i].c = "*" THEN NumMul(acc, r.val)
                           ELSE NumDiv(acc, r.val))
    ELSE [ok |-> TRUE, val |-> acc, next |-> i]

JsMul(toks, i) ==
    LET u == JsUnary(toks, i)
    IN  IF ~u.ok THEN ParseFail ELSE JsMulRest(toks, u.next, u.val)

\* AdditiveExpression, left to right
RECURSIVE JsAddRest(_, _, _)
JsAddRest(toks, i, acc) ==
    IF IsOp(toks, i, {"+", "-"}) THEN
        LET r == JsMul(toks, i + 1)
        IN  IF ~r.ok THEN ParseFail
            ELSE JsAddRest(toks, r.next,
                           IF toks[i].c = "+" THEN NumAdd(acc, r.val)
                           ELSE NumSub(acc, r.val))
    ELSE [ok |-> TRUE, val |-> acc, next |-> i]

\* Function("return " + left)(): [ok |-> FALSE] when it throws, else its value
JsEval(left) ==
    LET lx == JsLex(left, 1, <<>>)
    IN  IF ~lx.ok THEN ParseFail
        ELSE LET m == JsMul(lx.toks, 1)
             IN  IF ~m.ok THEN ParseFail
                 ELSE LET a == JsAddRest(lx.toks, m.next, m.val)
                      IN  IF a.ok /\ a.next = Len(lx.toks) + 1 THEN a ELSE ParseFail

(***************************************************************************)
(* isValidEquation                                                         *)
(***************************************************************************)
\* /^-?\d+$/
MatchesSignedDigits(right) ==
    LET body == IF right # <<>> /\ right[1] = "-" THEN Tail(right) ELSE right
    IN  body # <<>> /\ \A i \in 1..Len(body) : body[i] \in Digits

\* parseInt(right, 10) for a right side that matches /^-?\d+$/
ParseInt(right) ==
    IF right[1] = "-" THEN 0 - DigitsValue(Tail(right), 10, 0)
    ELSE DigitsValue(right, 10, 0)

\* isValidEquation with its length floor off by one
isValidEquationShort(e) ==
    IF Len(e) < MinLength - 1 THEN FALSE
    ELSE IF \E i \in 1..Len(e) : e[i] \notin Alphabet THEN FALSE
    ELSE IF CountChar(e, "=") # 1 THEN FALSE
    ELSE IF e[1] = "=" \/ e[Len(e)] = "=" THEN FALSE
    ELSE
        LET eq == IndexOf(e, "=", 1)
            left == SubSeq(e, 1, eq - 1)
            right == SubSeq(e, eq + 1, Len(e))
        IN  IF left = <<>> \/ right = <<>> THEN FALSE
            ELSE IF ~MatchesSignedDigits(right) THEN FALSE
            ELSE IF left[1] \in {"*", "/"} THEN FALSE
            ELSE LET lv == JsEval(left)
                 IN  IF ~lv.ok THEN FALSE
                     ELSE IF ~lv.val.fin THEN FALSE
                     ELSE NumEqualsInt(lv.val, ParseInt(right))

isValidEquation(e) ==
    IF Len(e) < MinLength THEN FALSE
    ELSE IF \E i \in 1..Len(e) : e[i] \notin Alphabet THEN FALSE
    ELSE IF CountChar(e, "=") # 1 THEN FALSE
    ELSE IF e[1] = "=" \/ e[Len(e)] = "=" THEN FALSE
    ELSE
        LET eq == IndexOf(e, "=", 1)
            left == SubSeq(e, 1, eq - 1)
            right == SubSeq(e, eq + 1, Len(e))
        IN  IF left = <<>> \/ right = <<>> THEN FALSE
            ELSE IF ~MatchesSignedDigits(right) THEN FALSE
            ELSE IF left[1] \in {"*", "/"} THEN FALSE
            ELSE LET lv == JsEval(left)
                 IN  IF ~lv.ok THEN FALSE
                     ELSE IF ~lv.val.fin THEN FALSE
                     ELSE NumEqualsInt(lv.val, ParseInt(right))

(***************************************************************************)
(* History records and buildConstraintsFromGuesses.                        *)
(* Positions are 1-based here: position i is index i - 1 of the code.      *)
(***************************************************************************)
\* the value of an unset fixed position (null)
Null == "null"

Max(a, b) == IF a >= b THEN a ELSE b

RECURSIVE SeqMax(_)
SeqMax(q) == IF Len(q) = 1 THEN q[1] ELSE Max(q[1], SeqMax(Tail(q)))

RECURSIVE SeqMin(_)
SeqMin(q) ==
    IF Len(q) = 1 THEN q[1]
    ELSE LET m == SeqMin(Tail(q)) IN IF q[1] <= m THEN q[1] ELSE m

\* a GuessRecord of single-target mode
Record(guess, pat, solved) ==
    [guess |-> guess, patterns |-> pat, is4Mode |-> FALSE, solved |-> solved]

\* Array.isArray(patterns) ? patterns[0] : patterns
PatternOf(rec) == IF rec.is4Mode THEN rec.patterns[1] ELSE rec.patterns

\* the colours of a row of n cells nobody has clicked
Gray(n) == [i \in 1..n |-> "x"]

\* a GuessRecord of multi-target mode, pats being its four patterns
Record4(guess, pats, solved) ==
    [guess |-> guess, patterns |-> pats, is4Mode |-> TRUE, solved |-> solved]

\* the history reduced as buildConstraintsFromGuesses reads it, by the first
\* pattern of each record whatever the target
ProjectGuessesFirst(gs, t) ==
    [k \in 1..Len(gs) |-> Record(gs[k].guess, PatternOf(gs[k]), FALSE)]

\* searchSingleTargetAsync: the history as target t (1..4) sees it, each
\* record reduced to its guess and its pattern for t
ProjectGuesses(gs, t) ==
    [k \in 1..Len(gs) |->
        Record(gs[k].guess,
               IF gs[k].is4Mode THEN gs[k].patterns[t] ELSE gs[k].patterns, FALSE)]

\* number of positions of guess that hold ch and are coloured col
ColorCount(guess, pat, ch, col) ==
    Cardinality({i \in 1..Len(guess) : guess[i] = ch /\ pat[i] = col})

\* green + yellow occurrences of ch within one guess
RequiredIn(guess, pat, ch) ==
    ColorCount(guess, pat, ch, "g") + ColorCount(guess, pat, ch, "y")

\* the characters that occur in the guesses of a history
HistoryChars(gs) == UNION {{gs[k].guess[i] : i \in 1..Len(gs[k].guess)} : k \in 1..Len(gs)}

\* the accumulators before the first guess
BuildStart(gs, len) ==
    [greens |-> [i \in 1..len |-> Null],
     excluded |-> {},
     yellowForbiddenPositions |-> [ch \in HistoryChars(gs) |-> {}],
     charRequirements |-> [ch \in HistoryChars(gs) |-> <<>>],
     charMaxLimits |-> [ch \in HistoryChars(gs) |-> <<>>]]

\* one iteration of the loop over the guesses
BuildStep(acc, rec) ==
    LET guess == rec.guess
        pat == PatternOf(rec)
        here == {guess[i] : i \in 1..Len(guess)}
        req(ch) == RequiredIn(guess, pat, ch)
    IN  IF rec.solved THEN acc
        ELSE IF pat = <<>> \/ Len(pat) # Len(guess) THEN acc
        ELSE
          [greens |->
               [i \in 1..Max(Len(acc.greens), Len(guess)) |->
                   IF i <= Len(guess) /\ pat[i] = "g" THEN guess[i]
                   ELSE IF i <= Len(acc.greens) THEN acc.greens[i]
                   ELSE Null],
           excluded |->
               acc.excluded \cup
                   {guess[i] : i \in {j \in 1..Len(guess) :
                                         pat[j] = "x" /\ req(guess[j]) = 0}},
           yellowForbiddenPositions |->
               [ch \in DOMAIN acc.yellowForbiddenPositions |->
                   acc.yellowForbiddenPositions[ch] \cup
                       {i \in 1..Len(guess) :
                           /\ guess[i] = ch
                           /\ \/ pat[i] = "y"
                              \/ pat[i] = "x" /\ req(ch) > 0}],
           charRequirements |->
               [ch \in DOMAIN acc.charRequirements |->
                   IF ch \in here /\ req(ch) > 0
                   THEN Append(acc.charRequirements[ch], req(ch))
                   ELSE acc.charRequirements[ch]],
           charMaxLimits |->
               [ch \in DOMAIN acc.charMaxLimits |->
                   IF ch \in here /\ ColorCount(guess, pat, ch, "x") > 0 /\ req(ch) > 0
                   THEN Append(acc.charMaxLimits[ch], req(ch))
                   ELSE acc.charMaxLimits[ch]]]

RECURSIVE BuildLoop(_, _, _)
BuildLoop(acc, gs, k) ==
    IF k > Len(gs) THEN acc ELSE BuildLoop(BuildStep(acc, gs[k]), gs, k + 1)

\* greenCounts kept from one call of the builder to the next: the fixed
\* positions of the ConstraintSet built before are counted again
GreenCountKept(greens, ch) ==
    Cardinality({i \in DOMAIN greens : greens[i] = ch})
        + Cardinality({i \in DOMAIN constraints.greens : constraints.greens[i] = ch})

\* number of fixed positions that hold ch
GreenCount(greens, ch) == Cardinality({i \in DOMAIN greens : greens[i] = ch})

\* requiredCounts left as the maxima over the guesses
SubtractGreensNot(required, greens) == required

\* requiredCounts after the fixed positions are subtracted
SubtractGreens(required, greens) ==
    [ch \in DOMAIN required |->
        IF GreenCount(greens, ch) > 0
        THEN Max(0, required[ch] - GreenCount(greens, ch))
        ELSE required[ch]]

\* excluded left as the loop over the guesses filled it
RemoveRequiredNot(excluded, required, greens) == excluded

\* excluded after the required and the fixed characters are removed from it
RemoveRequired(excluded, required, greens) ==
    excluded \ {ch \in DOMAIN required :
                   required[ch] > 0 \/ GreenCount(greens, ch) > 0}

buildConstraintsFromGuesses(gs, len) ==
    LET acc == BuildLoop(BuildStart(gs, len), gs, 1)
        maxOf == [ch \in {c \in DOMAIN acc.charRequirements :
                             acc.charRequirements[c] # <<>>} |->
                     SeqMax(acc.charRequirements[ch])]
        required == SubtractGreens(maxOf, acc.greens)
    IN  [greens |-> acc.greens,
         requiredCounts |-> required,
         maxCounts |->
             [ch \in {c \in DOMAIN acc.charMaxLimits : acc.charMaxLimits[c] # <<>>} |->
                 SeqMin(acc.charMaxLimits[ch])],
         excluded |-> RemoveRequired(acc.excluded, required, acc.greens),
         yellowForbiddenPositions |->
             [ch \in {c \in DOMAIN acc.yellowForbiddenPositions :
                         acc.yellowForbiddenPositions[c] # {}} |->
                 acc.yellowForbiddenPositions[ch]]]

\* constraints.requiredCounts[ch] || 0
RequiredOf(cons, ch) ==
    IF ch \in DOMAIN cons.requiredCounts THEN cons.requiredCounts[ch] ELSE 0

\* constraints.maxCounts[ch] || 0: an absent entry and a zero entry are both falsy
MaxOf(cons, ch) == IF ch \in DOMAIN cons.maxCounts THEN cons.maxCounts[ch] ELSE 0

\* constraints.yellowForbiddenPositions[ch]?.has(pos)
IsForbidden(cons, ch, pos) ==
    ch \in DOMAIN cons.yellowForbiddenPositions
        /\ pos \in cons.yellowForbiddenPositions[ch]

(***************************************************************************)
(* checkPatternConsistency                                                 *)
(***************************************************************************)
Valid == [valid |-> TRUE, kind |-> "none", pos |-> 0, ch |-> "", fixed |-> ""]

Invalid(kind, pos, ch, fixed) ==
    [valid |-> FALSE, kind |-> kind, pos |-> pos, ch |-> ch, fixed |-> fixed]

\* the body of the position loop without its test of a green mark on a
\* position fixed to another character
PositionCheckNoFixedOther(guess, pat, cons, i) ==
    LET ch == guess[i]
        color == pat[i]
        fixed == IF i \in DOMAIN cons.greens THEN cons.greens[i] ELSE Null
    IN  IF fixed # Null /\ fixed = ch /\ color # "g"
            THEN Invalid("fixedNotGreen", i, ch, fixed)
        ELSE IF ch \in cons.excluded /\ color \in {"g", "y"}
            THEN Invalid("excluded", i, ch, "")
        ELSE IF IsForbidden(cons, ch, i) /\ color = "g"
            THEN Invalid("forbidden", i, ch, "")
        ELSE Valid

\* the violation the body of the position loop returns at position i, or Valid
PositionCheck(guess, pat, cons, i) ==
    LET ch == guess[i]
        color == pat[i]
        fixed == IF i \in DOMAIN cons.greens THEN cons.greens[i] ELSE Null
    IN  IF fixed # Null /\ fixed # ch /\ color = "g"
            THEN Invalid("fixedOther", i, ch, fixed)
        ELSE IF fixed # Null /\ fixed = ch /\ color # "g"
            THEN Invalid("fixedNotGreen", i, ch, fixed)
        ELSE IF ch \in cons.excluded /\ color \in {"g", "y"}
            THEN Invalid("excluded", i, ch, "")
        ELSE IF IsForbidden(cons, ch, i) /\ color = "g"
            THEN Invalid("forbidden", i, ch, "")
        ELSE Valid

RECURSIVE PositionLoop(_, _, _, _)
PositionLoop(guess, pat, cons, i) ==
    IF i > Len(guess) THEN Valid
    ELSE LET r == PositionCheck(guess, pat, cons, i)
         IN  IF ~r.valid THEN r ELSE PositionLoop(guess, pat, cons, i + 1)

\* the keys of charCounts in the order Object.entries lists them: the digit
\* keys in ascending order, then the other keys in order of first insertion
CountKeys(guess, pat) ==
    LET marked(c) == RequiredIn(guess, pat, c) > 0
        digitKeys == SelectSeq(SubSeq(AlphabetSeq, 1, 10), marked)
        firstAt(i) == guess[i] \notin Digits /\ pat[i] \in {"g", "y"}
                          /\ \A j \in 1..(i - 1) : ~(guess[j] = guess[i] /\ pat[j] \in {"g", "y"})
        RECURSIVE others(_)
        others(i) == IF i > Len(guess) THEN <<>>
                     ELSE (IF firstAt(i) THEN <<guess[i]>> ELSE <<>>) \o others(i + 1)
    IN  digitKeys \o others(1)

RECURSIVE CountLoop(_, _, _, _, _)
CountLoop(guess, pat, cons, keys, k) ==
    IF k > Len(keys) THEN Valid
    ELSE IF keys[k] \in DOMAIN cons.maxCounts
            /\ RequiredIn(guess, pat, keys[k]) > cons.maxCounts[keys[k]]
        THEN Invalid("maxCount", 0, keys[k], "")
    ELSE CountLoop(guess, pat, cons, keys, k + 1)

checkPatternConsistency(guess, pat, cons) ==
    IF pat = <<>> \/ Len(pat) # Len(guess) THEN Invalid("length", 0, "", "")
    ELSE LET r == PositionLoop(guess, pat, cons, 1)
         IN  IF ~r.valid THEN r
             ELSE CountLoop(guess, pat, cons, CountKeys(guess, pat), 1)

\* checkPatternConsistency of solver.js: the body of its position loop,
\* which returns a violation for a yellow mark at a forbidden position too
PositionCheckSolver(guess, pat, cons, i) ==
    LET ch == guess[i]
        color == pat[i]
        fixed == IF i \in DOMAIN cons.greens THEN cons.greens[i] ELSE Null
    IN  IF fixed # Null /\ fixed # ch /\ color = "g"
            THEN Invalid("fixedOther", i, ch, fixed)
        ELSE IF fixed # Null /\ fixed = ch /\ color # "g"
            THEN Invalid("fixedNotGreen", i, ch, fixed)
        ELSE IF ch \in cons.excluded /\ color \in {"g", "y"}
            THEN Invalid("excluded", i, ch, "")
        ELSE IF IsForbidden(cons, ch, i) /\ color \in {"y", "g"}
            THEN Invalid("forbidden", i, ch, "")
        ELSE Valid

RECURSIVE PositionLoopSolver(_, _, _, _)
PositionLoopSolver(guess, pat, cons, i) ==
    IF i > Len(guess) THEN Valid
    ELSE LET r == PositionCheckSolver(guess, pat, cons, i)
         IN  IF ~r.valid THEN r ELSE PositionLoopSolver(guess, pat, cons, i + 1)

checkPatternConsistencySolver(guess, pat, cons) ==
    IF pat = <<>> \/ Len(pat) # Len(guess) THEN Invalid("length", 0, "", "")
    ELSE LET r == PositionLoopSolver(guess, pat, cons, 1)
         IN  IF ~r.valid THEN r
             ELSE CountLoop(guess, pat, cons, CountKeys(guess, pat), 1)

(***************************************************************************)
(* scoreCandidate and the final sort                                       *)
(***************************************************************************)
\* twice the score of the code, which keeps it an integer:
\* score = 1.5 * (distinct characters) - (operator characters)
scoreCandidate(e) ==
    3 * Cardinality({e[i] : i \in 1..Len(e)})
        - 2 * Cardinality({i \in 1..Len(e) : e[i] \in Operators})

\* the keyed element r inserted into the sequence q, sorted by descending
\* key, behind every element whose key is not smaller (a stable sort)
InsertKeyed(q, r) ==
    LET p == Cardinality({i \in 1..Len(q) : q[i].k >= r.k})
    IN  SubSeq(q, 1, p) \o <<r>> \o SubSeq(q, p + 1, Len(q))

\* the elements q[lo], ..., q[hi] inserted one by one, from the left, into acc
RECURSIVE SortKeyed(_, _, _, _)
SortKeyed(q, lo, hi, acc) ==
    IF lo > hi THEN acc
    ELSE IF lo = hi THEN InsertKeyed(acc, q[lo])
    ELSE LET mid == (lo + hi) \div 2
             left == SortKeyed(q, lo, mid, acc)
         IN  IF left = <<>> THEN left ELSE SortKeyed(q, mid + 1, hi, left)

\* Array.prototype.sort with the comparator b.key - a.key, keys[i] being the
\* key of q[i]
SortByKey(q, keys) ==
    LET keyed == [i \in 1..Len(q) |-> [k |-> keys[i], x |-> q[i]]]
        sorted == SortKeyed(keyed, 1, Len(q), <<>>)
    IN  [i \in 1..Len(q) |-> sorted[i].x]

\* the results left in discovery order
SortResultsUnsorted(rs) == rs

\* results.sort((a, b) => scoreCandidate(b) - scoreCandidate(a))
SortResults(rs) == SortByKey(rs, [i \in 1..Len(rs) |-> scoreCandidate(rs[i])])

(***************************************************************************)
(* generateCandidatesAsync: the pieces of one dfs call.                    *)
(* pos is the 0-based position of the code (the length of current); the    *)
(* character placed at pos lands on position pos + 1 of the model.         *)
(***************************************************************************)
\* the empty usage map: used[ch] || 0
NoneUsed == [ch \in Alphabet |-> 0]

Use(used, ch) == [used EXCEPT ![ch] = @ + 1]

\* allowedChars without the filter on the excluded characters
allowedCharsUnfiltered(cons) == AlphabetSeq

\* "0123456789+-*/=" without the excluded characters
allowedChars(cons) ==
    LET keep(ch) == ch \notin cons.excluded IN SelectSeq(AlphabetSeq, keep)

\* sum over the characters of cs of the occurrences still missing from used
RECURSIVE ShortfallFrom(_, _, _, _)
ShortfallFrom(cons, used, cs, k) ==
    IF k > Len(AlphabetSeq) THEN 0
    ELSE LET ch == AlphabetSeq[k]
         IN  (IF ch \in cs /\ ch \in DOMAIN cons.requiredCounts
                    /\ used[ch] < cons.requiredCounts[ch]
              THEN cons.requiredCounts[ch] - used[ch] ELSE 0)
             + ShortfallFrom(cons, used, cs, k + 1)

Shortfall(cons, used, cs) == ShortfallFrom(cons, used, cs, 1)

\* twice the priority getSortedChars gives ch (the ideal position of "=" is
\* length * 0.5, so the priority of the code can end in .5)
Priority(cons, len, pos, used, ch) ==
    LET needed == RequiredOf(cons, ch) - used[ch]
        dist2 == IF 2 * pos >= len THEN 2 * pos - len ELSE len - 2 * pos
    IN  (IF RequiredOf(cons, ch) # 0 /\ needed > 0 THEN needed * 2000 ELSE 0)
        + (IF ch \in Digits THEN 200 ELSE 0)
        + (IF ch = "=" THEN Max(0, 100 - dist2 * 5) ELSE 0)
        + (IF ch \in Operators /\ pos < 2 THEN 0 - 100 ELSE 0)
        + (IF ch = "1" THEN 10 ELSE IF ch = "2" THEN 8 ELSE IF ch = "0" THEN 6 ELSE 0)
        + (IF ch \in {"+", "-"} THEN 20 ELSE 0)
        + (IF ch \in {"*", "/"} THEN 10 ELSE 0)

\* the filter of getSortedChars: TRUE when ch is skipped
SortedCharsSkips(cons, len, pos, used, hasEqual, ch) ==
    \/ ch = "=" /\ (hasEqual \/ pos = 0 \/ pos = len - 1)
    \/ hasEqual /\ ch \in {"*", "/", "+"}
    \/ IsForbidden(cons, ch, pos + 1)
    \/ MaxOf(cons, ch) # 0 /\ used[ch] >= MaxOf(cons, ch)

getSortedChars(cons, len, pos, used, hasEqual) ==
    LET keep(ch) == ~SortedCharsSkips(cons, len, pos, used, hasEqual, ch)
        chars == SelectSeq(allowedChars(cons), keep)
    IN  SortByKey(chars, [i \in 1..Len(chars) |-> Priority(cons, len, pos, used, chars[i])])

\* the character before pos, "" at pos 0 (lastChar is null there)
LastChar(current, pos) == IF pos > 0 THEN current[pos] ELSE ""

\* adjacency: an operator behind an operator or "=" is skipped unless it is
\* a "-" that does not follow a "-"
AdjacencySkips(current, pos, ch) ==
    LET lastChar == LastChar(current, pos)
    IN  /\ ch \in Operators
        /\ lastChar # ""
        /\ lastChar \in Operators \cup {"="}
        /\ (ch # "-" \/ lastChar = "-")

\* "=" is skipped behind an operator and while a required operator is missing
EqualsSkips(cons, current, pos, used, ch) ==
    /\ ch = "="
    /\ \/ LastChar(current, pos) \in Operators
       \/ Shortfall(cons, used, Operators) > 0

\* the count checks made with newUsed: the cap of ch and the room left for
\* the characters still required
CountSkips(cons, len, pos, used, ch) ==
    LET newUsed == Use(used, ch)
    IN  \/ MaxOf(cons, ch) # 0 /\ newUsed[ch] > MaxOf(cons, ch)
        \/ Shortfall(cons, newUsed, Alphabet) > len - pos - 1

\* the body of the loop over sortedChars: TRUE when it continues without
\* a recursive call
LoopSkips(cons, len, f, ch) ==
    \/ AdjacencySkips(f.current, f.pos, ch)
    \/ EqualsSkips(cons, f.current, f.pos, f.used, ch)
    \/ f.hasEqual /\ ch \in {"*", "/", "+"}
    \/ CountSkips(cons, len, f.pos, f.used, ch)

\* the fixed-position branch: TRUE when it returns without a recursive call
FixedSkips(cons, f, ch) ==
    \/ ch = "=" /\ LastChar(f.current, f.pos) \in Operators
    \/ MaxOf(cons, ch) # 0 /\ Use(f.used, ch)[ch] > MaxOf(cons, ch)

\* the arguments of dfs(pos + 1, current + ch, newUsed, hasEqual || ch === "=")
ChildCall(f, ch) ==
    [pos |-> f.pos + 1,
     current |-> Append(f.current, ch),
     used |-> Use(f.used, ch),
     hasEqual |-> f.hasEqual \/ ch = "="]

\* the leaf test without the call of isValidEquation
LeafAcceptsUnvalidated(cons, c) ==
    /\ c.hasEqual
    /\ \A ch \in DOMAIN cons.requiredCounts : c.used[ch] >= cons.requiredCounts[ch]

\* the leaf test at pos === length
LeafAccepts(cons, c) ==
    /\ c.hasEqual
    /\ isValidEquation(c.current)
    /\ \A ch \in DOMAIN cons.requiredCounts : c.used[ch] >= cons.requiredCounts[ch]

\* the fixed character of the position the call c fills, Null when it is free
FixedAt(cons, c) ==
    IF c.pos + 1 \in DOMAIN cons.greens THEN cons.greens[c.pos + 1] ELSE Null

\* the frame of the call c once it has reached its loop (or its fixed
\* branch): todo holds the characters it has still to try
NewFrame(cons, len, c) ==
    [pos |-> c.pos, current |-> c.current, used |-> c.used, hasEqual |-> c.hasEqual,
     fixed |-> FixedAt(cons, c) # Null,
     todo |-> IF FixedAt(cons, c) # Null THEN <<FixedAt(cons, c)>>
              ELSE getSortedChars(cons, len, c.pos, c.used, c.hasEqual)]

\* runs the pending loops of the stack up to the next recursive call:
\* exhausted frames return, skipped characters are passed over
RECURSIVE Advance(_, _, _)
Advance(cons, len, st) ==
    IF st = <<>> THEN [stack |-> <<>>, pending |-> <<>>]
    ELSE
        LET f == st[Len(st)]
            below == SubSeq(st, 1, Len(st) - 1)
        IN  IF f.todo = <<>> THEN Advance(cons, len, below)
            ELSE
                LET ch == Head(f.todo)
                    rest == Append(below, [f EXCEPT !.todo = Tail(f.todo)])
                    skip == IF f.fixed THEN FixedSkips(cons, f, ch)
                            ELSE LoopSkips(cons, len, f, ch)
                IN  IF skip THEN Advance(cons, len, rest)
                    ELSE [stack |-> rest, pending |-> <<ChildCall(f, ch)>>]

(***************************************************************************)
(* generateCandidates, the synchronous search: the pieces that differ.     *)
(***************************************************************************)
\* the body of the loop over allowedChars without its rule on "=" while a
\* required operator is missing
SyncLoopSkipsNoOperatorRule(cons, len, f, ch) ==
    \/ AdjacencySkips(f.current, f.pos, ch)
    \/ ch = "=" /\ LastChar(f.current, f.pos) \in Operators
    \/ ch = "=" /\ (f.hasEqual \/ f.pos = 0 \/ f.pos = len - 1)
    \/ f.hasEqual /\ ch \in {"*", "/", "+"}
    \/ IsForbidden(cons, ch, f.pos + 1)
    \/ CountSkips(cons, len, f.pos, f.used, ch)

\* the body of the loop over allowedChars: TRUE when it continues without
\* a recursive call
SyncLoopSkips(cons, len, f, ch) ==
    \/ AdjacencySkips(f.current, f.pos, ch)
    \/ ch = "=" /\ LastChar(f.current, f.pos) \in Operators
    \/ ch = "=" /\ (f.hasEqual \/ f.pos = 0 \/ f.pos = len - 1)
    \/ ch = "=" /\ Shortfall(cons, f.used, Operators) > 0
    \/ f.hasEqual /\ ch \in {"*", "/", "+"}
    \/ IsForbidden(cons, ch, f.pos + 1)
    \/ CountSkips(cons, len, f.pos, f.used, ch)

\* the frame of a call of the synchronous dfs
SyncNewFrame(cons, c) ==
    [pos |-> c.pos, current |-> c.current, used |-> c.used, hasEqual |-> c.hasEqual,
     fixed |-> FixedAt(cons, c) # Null,
     todo |-> IF FixedAt(cons, c) # Null THEN <<FixedAt(cons, c)>>
              ELSE allowedChars(cons)]

(***************************************************************************)
(* A dfs recursion run from a call to its return, never suspended and      *)
(* never cancelled (sync selects the synchronous dfs).  acc carries the     *)
(* results rs and the number n of calls made; a run that would make more   *)
(* than MaxCalls calls is cut off and marked.                              *)
(***************************************************************************)
RECURSIVE RunCall(_, _, _, _, _, _), RunLoop(_, _, _, _, _, _)
RunCall(cons, len, cap, sync, c, acc) ==
    IF acc.cut THEN acc
    ELSE IF acc.n >= MaxCalls THEN [acc EXCEPT !.cut = TRUE]
    ELSE
        LET a == [acc EXCEPT !.n = @ + 1]
        IN  IF Len(a.rs) >= cap THEN a
            ELSE IF c.pos = len THEN
                IF LeafAccepts(cons, c) THEN [a EXCEPT !.rs = Append(@, c.current)] ELSE a
            ELSE RunLoop(cons, len, cap, sync,
                         IF sync THEN SyncNewFrame(cons, c) ELSE NewFrame(cons, len, c), a)

RunLoop(cons, len, cap, sync, f, acc) ==
    IF f.todo = <<>> \/ acc.cut THEN acc
    ELSE
        LET ch == Head(f.todo)
            skip == IF f.fixed THEN FixedSkips(cons, f, ch)
                    ELSE IF sync THEN SyncLoopSkips(cons, len, f, ch)
                    ELSE LoopSkips(cons, len, f, ch)
        IN  RunLoop(cons, len, cap, sync, [f EXCEPT !.todo = Tail(f.todo)],
                    IF skip THEN acc
                    ELSE RunCall(cons, len, cap, sync, ChildCall(f, ch), acc))

\* the first call: dfs(0, "", {}, false)
RootCall == [pos |-> 0, current |-> <<>>, used |-> NoneUsed, hasEqual |-> FALSE]

\* the whole recursion from dfs(0, "", {}, false)
RunSearch(cons, len, cap, sync) ==
    RunCall(cons, len, cap, sync, RootCall, [rs |-> <<>>, n |-> 0, cut |-> FALSE])

(***************************************************************************)
(* The validator on its own: a string is handed to isValidEquation.        *)
(***************************************************************************)
\* strings of length n over the character set cs
StringsOver(cs, n) == [1..n -> cs]

\* the strings handed to the validator: every string of the minimum length
\* over a reduced alphabet plus one foreign character, and longer strings
\* over the characters of a division followed by a multiplication
ValidatorInputs ==
    UNION {StringsOver({"0", "1", "2", "8", "+", "-", "*", "/", "=", "a"}, n) :
              n \in (MinLength - 1)..MinLength}
    \cup UNION {StringsOver({"1", "2", "3", "/", "*", "="}, n) :
              n \in (MinLength + 1)..MaxExprLen}

\* the application before any search, with the configured length len
Idle(len) ==
    /\ length = len
    /\ maxResults = DefaultMaxResults
    /\ guesses = <<>>
    /\ mode4 = FALSE
    /\ cancelled = FALSE
    /\ pc = "idle"
    /\ engine = "none"
    /\ searched = <<>>
    /\ options = [length |-> len, maxResults |-> DefaultMaxResults]
    /\ constraints = buildConstraintsFromGuesses(<<>>, len)
    /\ stack = <<>>
    /\ pending = <<>>
    /\ results = <<>>
    /\ dfsCallCount = 0
    /\ returned = <<>>
    /\ progress = <<>>
    /\ targets = <<>>
    /\ elapsed = 0

\* no result of checkPatternConsistency yet
NoReport == Invalid("unchecked", 0, "", "")

NoCall ==
    /\ expr = <<>>
    /\ pattern = <<>>
    /\ verdict = "none"
    /\ report = NoReport
    /\ checkedBy = "none"

InitValidator ==
    /\ \E len \in {MinLength, MinLength + 1} : Idle(len)
    /\ expr \in ValidatorInputs
    /\ pattern = <<>>
    /\ verdict = "none"
    /\ report = NoReport
    /\ checkedBy = "none"

Validate ==
    /\ verdict = "none"
    /\ verdict' = IF isValidEquation(expr) THEN "valid" ELSE "invalid"
    /\ UNCHANGED <<appVars, cancelled, pc, searchVars, sideVars, expr, pattern, report, checkedBy>>

NextValidator == Validate

SpecValidator == InitValidator /\ [][NextValidator]_vars

(***************************************************************************)
(* The checker on its own: a guess and a pattern are checked against the   *)
(* constraints of a one-record history, as addCurrentGuess does before it  *)
(* appends.                                                                *)
(***************************************************************************)
S(a, b, c, d, e) == <<a, b, c, d, e>>

RecScenarioB == Record(S("2", "+", "2", "=", "4"), S("x", "g", "x", "g", "x"), FALSE)

\* the (guess, pattern) pairs the user enters
EntryPool ==
    {RecScenarioB,
     Record(S("0", "-", "-", "0", "="), S("x", "y", "y", "x", "y"), FALSE),
     Record(S("1", "1", "=", "-", "1"), S("x", "g", "g", "g", "g"), FALSE),
     Record(S("3", "*", "2", "=", "6"), S("g", "x", "x", "g", "g"), FALSE),
     Record(S("1", "+", "1", "=", "2"), S("y", "g", "g", "g", "g"), FALSE),
     Record(S("1", "*", "3", "=", "3"), S("g", "x", "x", "g", "x"), FALSE),
     Record(S("3", "+", "3", "=", "6"), S("g", "g", "g", "g", "g"), FALSE)}

\* the prospective guesses handed to the checker
CheckerGuesses ==
    {S("5", "*", "5", "=", "5"), S("3", "+", "3", "=", "6"), S("1", "*", "1", "=", "1")}

InitChecker ==
    /\ length = MinLength
    /\ maxResults = DefaultMaxResults
    /\ guesses \in {<<r>> : r \in EntryPool}
    /\ mode4 = FALSE
    /\ cancelled = FALSE
    /\ pc = "idle"
    /\ engine = "none"
    /\ searched = <<>>
    /\ options = [length |-> MinLength, maxResults |-> DefaultMaxResults]
    /\ constraints = buildConstraintsFromGuesses(<<>>, MinLength)
    /\ stack = <<>>
    /\ pending = <<>>
    /\ results = <<>>
    /\ dfsCallCount = 0
    /\ returned = <<>>
    /\ progress = <<>>
    /\ targets = <<>>
    /\ elapsed = 0
    /\ expr \in CheckerGuesses
    /\ pattern \in [1..MinLength -> {"g", "y", "x"}] \cup {<<>>, <<"g", "g", "g", "g">>}
    /\ verdict = "none"
    /\ report = NoReport
    /\ checkedBy = "none"

\* checkPatternConsistency(guess, patterns, buildConstraintsFromGuesses(...))
Check ==
    /\ report = NoReport
    /\ report' = checkPatternConsistency(
                      expr, pattern, buildConstraintsFromGuesses(guesses, length))
    /\ checkedBy' = "app.js"
    /\ UNCHANGED <<appVars, cancelled, pc, searchVars, sideVars, expr, pattern, verdict>>

\* checkPatternConsistency of solver.js, called with the same arguments
CheckSolver ==
    /\ report = NoReport
    /\ report' = checkPatternConsistencySolver(
                      expr, pattern, buildConstraintsFromGuesses(guesses, length))
    /\ checkedBy' = "solver.js"
    /\ UNCHANGED <<appVars, cancelled, pc, searchVars, sideVars, expr, pattern, verdict>>

NextChecker == Check \/ CheckSolver

SpecChecker == InitChecker /\ [][NextChecker]_vars

(***************************************************************************)
(* What the two specifications of the application enter and import.        *)
(***************************************************************************)
\* the entries of single-target mode that the history is edited with: the
\* pool of the checker and an all-green answer that repeats Scenario B's guess
HistoryEntries ==
    EntryPool \cup {Record(S("2", "+", "2", "=", "4"), S("g", "g", "g", "g", "g"), FALSE)}

\* the entries of multi-target mode: Scenario B's feedback for every target,
\* a guess whose feedback differs between the targets, and a guess one of
\* whose targets is all green
HistoryEntries4 ==
    LET xgxgx == S("x", "g", "x", "g", "x")
    IN  { Record4(S("2", "+", "2", "=", "4"), <<xgxgx, xgxgx, xgxgx, xgxgx>>, FALSE),
          Record4(S("2", "+", "4", "=", "6"),
                  <<xgxgx, S("g", "g", "x", "g", "x"), S("x", "g", "y", "g", "x"), xgxgx>>,
                  FALSE),
          Record4(S("3", "+", "3", "=", "6"),
                  <<S("g", "g", "x", "g", "x"), S("g", "g", "g", "g", "g"), xgxgx, xgxgx>>,
                  FALSE) }

\* the row of single-target mode and the rows of multi-target mode when the
\* entry r is made: the rows of the other mode are left as they start
StatesOf(r) == IF r.is4Mode THEN Gray(Len(r.guess)) ELSE r.patterns

GridsOf(r) == IF r.is4Mode THEN r.patterns ELSE [t \in 1..4 |-> Gray(Len(r.guess))]

(***************************************************************************)
(* The application: history editing, startSearch, the dfs calls of         *)
(* generateCandidatesAsync, its timed yields, and cancelSearch.            *)
(***************************************************************************)
\* the histories an imported snapshot carries: Scenario B, and a pair of
\* records, in both orders, that addCurrentGuess would not have let through
\* (the second marks "1" green where the first marks it yellow)
ImportPool ==
    LET a == Record(S("1", "+", "1", "=", "2"), S("y", "g", "g", "g", "g"), FALSE)
        b == Record(S("1", "*", "3", "=", "3"), S("g", "x", "x", "g", "x"), FALSE)
    IN  {<<RecScenarioB>>, <<a, b>>, <<b, a>>}

Init ==
    /\ Idle(DefaultLength)
    /\ NoCall

\* the pattern is all green
AllGreen(pat) == \A i \in 1..Len(pat) : pat[i] = "g"

\* addCurrentGuess with the entered guess and colours: currentStates is the
\* row of single-target mode, colorGrids the four rows of multi-target mode
AddCurrentGuess(guess, currentStates, colorGrids) ==
    /\ pc \in {"idle", "done"}
    /\ Len(guesses) < MaxGuesses
    /\ LET pat == IF mode4 THEN colorGrids ELSE currentStates IN
       guesses' =
          IF Len(guess) # length \/ \E i \in 1..Len(guess) : guess[i] \notin Alphabet
              THEN guesses
          ELSE IF (IF mode4 THEN \E t \in 1..4 : AllGreen(pat[t]) ELSE AllGreen(pat))
              THEN Append(guesses, [Record(guess, pat, TRUE) EXCEPT !.is4Mode = mode4])
          ELSE IF guesses # <<>>
                  /\ ~checkPatternConsistency(
                          guess, IF mode4 THEN pat[1] ELSE pat,
                          buildConstraintsFromGuesses(guesses, length)).valid
              THEN guesses
          ELSE Append(guesses, [Record(guess, pat, FALSE) EXCEPT !.is4Mode = mode4])
    /\ UNCHANGED <<length, maxResults, mode4, cancelled, pc, searchVars, callVars, sideVars>>

\* the change handler of the length field with the entered number n
ChangeLength(n) ==
    /\ pc \in {"idle", "done"}
    /\ length' = IF n >= MinLength /\ n <= MaxLength THEN n ELSE length
    /\ UNCHANGED <<maxResults, guesses, mode4, cancelled, pc, searchVars, callVars, sideVars>>

\* the clearHistory button
ClearHistory ==
    /\ pc \in {"idle", "done"}
    /\ guesses' = <<>>
    /\ UNCHANGED <<length, maxResults, mode4, cancelled, pc, searchVars, callVars, sideVars>>

\* the deleteLastGuess button
DeleteLastGuess ==
    /\ pc \in {"idle", "done"}
    /\ guesses' = IF guesses # <<>> THEN SubSeq(guesses, 1, Len(guesses) - 1) ELSE guesses
    /\ UNCHANGED <<length, maxResults, mode4, cancelled, pc, searchVars, callVars, sideVars>>

\* the change handler of the maxResults field with the entered number n
ChangeMaxResults(n) ==
    /\ pc \in {"idle", "done"}
    /\ maxResults' = n
    /\ UNCHANGED <<length, guesses, mode4, cancelled, pc, searchVars, callVars, sideVars>>

\* the change handler of the mode4 box
ToggleMode4 ==
    /\ pc \in {"idle", "done"}
    /\ mode4' = ~mode4
    /\ UNCHANGED <<length, maxResults, guesses, cancelled, pc, searchVars, callVars,
                   sideVars>>

\* importState with a snapshot of history h, length len (0 when the snapshot
\* has none) and mode flag m4
ImportState(h, len, m4) ==
    /\ pc \in {"idle", "done"}
    /\ length' = IF len = 0 THEN DefaultLength ELSE len
    /\ mode4' = m4
    /\ guesses' = h
    /\ UNCHANGED <<maxResults, cancelled, pc, searchVars, callVars, sideVars>>

\* the number of dfs calls a search of length len is followed for
CallBudget(len) == IF len > MaxLength THEN MaxCallsLong ELSE MaxCalls

\* startSearch that leaves the cancellation flag as the last search left it
StartSearchKeepsFlag ==
    /\ pc \in {"idle", "done"}
    /\ guesses # <<>>
    /\ ~mode4
    /\ pc' = "running"
    /\ engine' = "async"
    /\ searched' = guesses
    /\ options' = [length |-> length, maxResults |-> maxResults]
    /\ constraints' = buildConstraintsFromGuesses(guesses, length)
    /\ stack' = <<>>
    /\ pending' = <<RootCall>>
    /\ results' = <<>>
    /\ dfsCallCount' = 0
    /\ returned' = <<>>
    /\ progress' = <<>>
    /\ UNCHANGED <<appVars, cancelled, callVars, sideVars>>

\* startSearch in single-target mode up to the first call of dfs; it empties
\* the displayed list
StartSearch ==
    /\ pc \in {"idle", "done"}
    /\ guesses # <<>>
    /\ ~mode4
    /\ cancelled' = FALSE
    /\ pc' = "running"
    /\ engine' = "async"
    /\ searched' = guesses
    /\ options' = [length |-> length, maxResults |-> maxResults]
    /\ constraints' = buildConstraintsFromGuesses(guesses, length)
    /\ stack' = <<>>
    /\ pending' = <<RootCall>>
    /\ results' = <<>>
    /\ dfsCallCount' = 0
    /\ returned' = <<>>
    /\ progress' = <<>>
    /\ UNCHANGED <<appVars, callVars, sideVars>>

\* the entered call with a result-cap test that lets one more result in
CallBodyLateCap(c) ==
    IF Len(results) > options.maxResults THEN [results |-> results, frames |-> <<>>]
    ELSE IF c.pos = options.length THEN
        [results |-> IF LeafAccepts(constraints, c) THEN Append(results, c.current)
                     ELSE results,
         frames |-> <<>>]
    ELSE [results |-> results, frames |-> <<NewFrame(constraints, options.length, c)>>]

\* the rest of the entered call c from the result-cap test on: what it
\* leaves in results and the frame it opens (none when it returns at once)
CallBody(c) ==
    IF Len(results) >= options.maxResults THEN [results |-> results, frames |-> <<>>]
    ELSE IF c.pos = options.length THEN
        [results |-> IF LeafAccepts(constraints, c) THEN Append(results, c.current)
                     ELSE results,
         frames |-> <<>>]
    ELSE [results |-> results, frames |-> <<NewFrame(constraints, options.length, c)>>]

\* the search goes on, and returns an empty list when it was cancelled
ContinueDropping(fs, rs) ==
    LET nxt == Advance(constraints, options.length, stack \o fs)
    IN  /\ results' = rs
        /\ stack' = nxt.stack
        /\ pending' = nxt.pending
        /\ IF nxt.pending = <<>>
           THEN pc' = "done" /\ returned' = IF cancelled THEN <<>> ELSE SortResults(rs)
           ELSE pc' = "running" /\ UNCHANGED returned

\* the search goes on, and does not return when no call is left
ContinuePending(fs, rs) ==
    LET nxt == Advance(constraints, options.length, stack \o fs)
    IN  /\ results' = rs
        /\ stack' = nxt.stack
        /\ pending' = nxt.pending
        /\ pc' = "running"
        /\ UNCHANGED returned

\* the search goes on with the frames fs on top of the stack and the results
\* rs, up to its next call of dfs; when no call is left it sorts and returns
Continue(fs, rs) ==
    LET nxt == Advance(constraints, options.length, stack \o fs)
    IN  /\ results' = rs
        /\ stack' = nxt.stack
        /\ pending' = nxt.pending
        /\ IF nxt.pending = <<>>
           THEN pc' = "done" /\ returned' = SortResults(rs)
           ELSE pc' = "running" /\ UNCHANGED returned

\* the progress event of a yield point
YieldEvent(c, explored) ==
    [found |-> Len(results), explored |-> explored, current |-> c.current,
     newResult |-> Null]

\* the call c reports the result it has accepted twice
ResultEventsTwice(c, rs, explored) ==
    IF Len(rs) > Len(results)
    THEN <<[found |-> Len(rs), explored |-> explored, current |-> c.current,
            newResult |-> c.current],
           [found |-> Len(rs), explored |-> explored, current |-> c.current,
            newResult |-> c.current]>>
    ELSE <<>>

\* the progress event of an accepted result: the call c has pushed its
\* string when rs is longer than results
ResultEvents(c, rs, explored) ==
    IF Len(rs) > Len(results)
    THEN <<[found |-> Len(rs), explored |-> explored, current |-> c.current,
            newResult |-> c.current]>>
    ELSE <<>>

\* one call of dfs, from its entry to its next recursive call or its return.
\* Every YieldEvery calls it may suspend: whether 50 ms have passed since the
\* last yield is not determined by the state.
DfsCall ==
    /\ pc = "running"
    /\ pending # <<>>
    /\ dfsCallCount < CallBudget(options.length)
    /\ dfsCallCount' = dfsCallCount + 1
    /\ IF cancelled THEN Continue(<<>>, results) /\ UNCHANGED progress
       ELSE \/ /\ dfsCallCount' % YieldEvery = 0
               /\ pc' = "yielded"
               /\ UNCHANGED <<stack, pending, results, returned, progress>>
            \/ LET b == CallBody(pending[1])
               IN  /\ Continue(b.frames, b.results)
                   /\ progress' = progress
                          \o ResultEvents(pending[1], b.results, dfsCallCount + 1)
    /\ UNCHANGED <<appVars, cancelled, engine, searched, options, constraints,
                   callVars, sideVars>>

\* the suspended call resumes: it reads the flag again before it goes on
Resume ==
    /\ pc = "yielded"
    /\ IF cancelled THEN Continue(<<>>, results) /\ UNCHANGED progress
       ELSE LET b == CallBody(pending[1])
            IN  /\ Continue(b.frames, b.results)
                /\ progress' = Append(progress, YieldEvent(pending[1], dfsCallCount))
                       \o ResultEvents(pending[1], b.results, dfsCallCount)
    /\ UNCHANGED <<appVars, cancelled, engine, searched, options, constraints, dfsCallCount,
                   callVars, sideVars>>

\* startSearch of the earlier interface: it arms a timer whose callback runs
\* generateCandidates
StartSearchSync ==
    /\ pc \in {"idle", "done"}
    /\ guesses # <<>>
    /\ cancelled' = FALSE
    /\ pc' = "waiting"
    /\ engine' = "sync"
    /\ searched' = guesses
    /\ options' = [length |-> length, maxResults |-> maxResults]
    /\ constraints' = buildConstraintsFromGuesses(guesses, length)
    /\ stack' = <<>>
    /\ pending' = <<>>
    /\ results' = <<>>
    /\ dfsCallCount' = 0
    /\ returned' = <<>>
    /\ progress' = <<>>
    /\ UNCHANGED <<appVars, callVars, sideVars>>

\* the timer callback: generateCandidates with timeoutMs = 0 runs from its
\* first call to its return in one piece; with the flag set its first call
\* returns at once
RunSync ==
    /\ pc = "waiting"
    /\ LET run == IF cancelled THEN [rs |-> <<>>, n |-> 1, cut |-> FALSE]
                  ELSE RunSearch(constraints, options.length, options.maxResults, TRUE)
       IN  /\ ~run.cut
           /\ results' = run.rs
           /\ dfsCallCount' = run.n
           /\ returned' = SortResults(run.rs)
    /\ pc' = "done"
    /\ UNCHANGED <<appVars, cancelled, engine, searched, options, constraints, stack,
                   pending, progress, callVars, sideVars>>

\* cancelSearch: its button is shown while a search runs, and its handler
\* runs only while the search is suspended or waits for its timer
CancelSearch ==
    /\ pc \in {"yielded", "waiting"}
    /\ cancelled' = TRUE
    /\ UNCHANGED <<appVars, pc, searchVars, callVars, sideVars>>

Next ==
    \/ \E r \in EntryPool :
           AddCurrentGuess(r.guess, r.patterns, [t \in 1..4 |-> Gray(length)])
    \/ ClearHistory
    \/ DeleteLastGuess
    \/ \E h \in ImportPool, len \in MinLength..MaxLen : ImportState(h, len, FALSE)
    \/ \E n \in {MinLength - 1, MaxLength + 1} \cup (MinLength..MaxLen) : ChangeLength(n)
    \/ StartSearch
    \/ DfsCall
    \/ StartSearchSync
    \/ RunSync
    \/ Resume
    \/ CancelSearch

Spec == Init /\ [][Next]_vars

(***************************************************************************)
(* The asynchronous search on its own, with the result caps of the         *)
(* maxResults field and with the lengths importState lets in.              *)
(***************************************************************************)
\* the snapshots: Scenario B, a solved record, which leaves the ConstraintSet
\* empty, a record that marks one "2" yellow and another green, and an
\* all-gray record, which excludes "=" among others, the last one also with
\* a length beyond MaxLength
AsyncPool ==
    LET solved == Record(S("3", "+", "3", "=", "6"), S("g", "g", "g", "g", "g"), TRUE)
        gray == Record(S("3", "+", "3", "=", "6"), Gray(5), FALSE)
        twice == Record(S("4", "-", "2", "=", "2"), S("x", "g", "y", "g", "g"), FALSE)
    IN  { [guesses |-> <<RecScenarioB>>, length |-> MinLength],
          [guesses |-> <<twice>>, length |-> MinLength],
          [guesses |-> <<solved>>, length |-> MinLength],
          [guesses |-> <<gray>>, length |-> MinLength],
          [guesses |-> <<gray>>, length |-> LongLength] }

NextAsync ==
    \/ \E data \in AsyncPool : ImportState(data.guesses, data.length, FALSE)
    \/ \E n \in {0, 1, DefaultMaxResults} : ChangeMaxResults(n)
    \/ StartSearch
    \/ DfsCall
    \/ Resume
    \/ CancelSearch

SpecAsync == Init /\ [][NextAsync]_vars

(***************************************************************************)
(* The asynchronous search with its scheduling: a call of dfs that is due  *)
(* is made (the calls are chained by await), and the timer of a suspended  *)
(* call fires.  The searches are those of snapshots whose trees are small  *)
(* enough to be followed to their end.                                     *)
(***************************************************************************)
FairPool ==
    { <<RecScenarioB>>,
      <<Record(S("4", "-", "2", "=", "2"), S("x", "g", "y", "g", "g"), FALSE)>> }

NextFair ==
    \/ \E h \in FairPool : ImportState(h, MinLength, FALSE)
    \/ \E n \in {1, DefaultMaxResults} : ChangeMaxResults(n)
    \/ StartSearch
    \/ DfsCall
    \/ Resume
    \/ CancelSearch

\* the step of DfsCall: a call of dfs is due, the search running and
\* awaiting it, and the counter that only dfs increments counts it
DfsCalled ==
    /\ pc = "running"
    /\ pending # <<>>
    /\ dfsCallCount < CallBudget(options.length)
    /\ dfsCallCount' = dfsCallCount + 1

SpecFair ==
    Init /\ [][NextFair]_vars /\ WF_dfsCallCount(DfsCalled) /\ WF_vars(Resume)

(***************************************************************************)
(* The two searches of app.js side by side, on imported snapshots of the   *)
(* minimum length.                                                         *)
(***************************************************************************)
\* the histories of the snapshots: Scenario B, a record that requires two
\* "-", a record that marks one "2" yellow and another green, and two
\* records that contradict each other
BothPool ==
    { <<RecScenarioB>>,
      <<Record(S("0", "-", "-", "0", "="), S("x", "y", "y", "x", "y"), FALSE)>>,
      <<Record(S("4", "-", "2", "=", "2"), S("x", "g", "y", "g", "g"), FALSE)>>,
      <<Record(S("1", "+", "1", "=", "2"), S("y", "g", "g", "g", "g"), FALSE),
        Record(S("1", "*", "3", "=", "3"), S("g", "x", "x", "g", "x"), FALSE)>> }

NextBoth ==
    \/ \E h \in BothPool : ImportState(h, MinLength, FALSE)
    \/ StartSearch
    \/ DfsCall
    \/ StartSearchSync
    \/ RunSync

SpecBoth == Init /\ [][NextBoth]_vars

(***************************************************************************)
(* Multi-target mode: search4ModeAsync starts one generateCandidatesAsync  *)
(* for each target; the four run interleaved on the one thread.            *)
(***************************************************************************)
\* generateCandidatesAsync called with the ConstraintSet cons: its locals
\* before the first call of dfs
TargetSearch(cons) ==
    [constraints |-> cons, stack |-> <<>>, pending |-> <<RootCall>>, results |-> <<>>,
     dfsCallCount |-> 0, returned |-> <<>>, done |-> FALSE]

\* one call of dfs in the search s when the four searches push to one
\* results array, which is the longest of the lists held here
StepSearchShared(s, len, cap, flag) ==
    LET c == s.pending[1]
        shared == CHOOSE r \in {targets[u].results : u \in 1..4} :
                      \A u \in 1..4 : Len(targets[u].results) <= Len(r)
        found == ~flag /\ Len(shared) < cap /\ c.pos = len
                     /\ LeafAccepts(s.constraints, c)
        frames == IF ~flag /\ Len(shared) < cap /\ c.pos # len
                  THEN <<NewFrame(s.constraints, len, c)>> ELSE <<>>
        rs == IF found THEN Append(shared, c.current) ELSE shared
        nxt == Advance(s.constraints, len, s.stack \o frames)
    IN  [s EXCEPT !.dfsCallCount = @ + 1,
                  !.results = rs,
                  !.stack = nxt.stack,
                  !.pending = nxt.pending,
                  !.done = (nxt.pending = <<>>),
                  !.returned = IF nxt.pending = <<>> THEN SortResults(rs) ELSE @]

\* one call of dfs in the search s, from its entry to the next recursive
\* call of s or to the return of s; flag is cancelledRef.value
StepSearch(s, len, cap, flag) ==
    LET c == s.pending[1]
        found == ~flag /\ Len(s.results) < cap /\ c.pos = len
                     /\ LeafAccepts(s.constraints, c)
        frames == IF ~flag /\ Len(s.results) < cap /\ c.pos # len
                  THEN <<NewFrame(s.constraints, len, c)>> ELSE <<>>
        rs == IF found THEN Append(s.results, c.current) ELSE s.results
        nxt == Advance(s.constraints, len, s.stack \o frames)
    IN  [s EXCEPT !.dfsCallCount = @ + 1,
                  !.results = rs,
                  !.stack = nxt.stack,
                  !.pending = nxt.pending,
                  !.done = (nxt.pending = <<>>),
                  !.returned = IF nxt.pending = <<>> THEN SortResults(rs) ELSE @]

\* startSearch in multi-target mode: search4ModeAsync projects the history
\* on each target and starts the four searches
StartSearch4 ==
    /\ pc \in {"idle", "done"}
    /\ guesses # <<>>
    /\ mode4
    /\ cancelled' = FALSE
    /\ pc' = "running"
    /\ engine' = "multi"
    /\ searched' = guesses
    /\ options' = [length |-> length, maxResults |-> maxResults]
    /\ targets' = [t \in 1..4 |->
                      TargetSearch(buildConstraintsFromGuesses(
                                       ProjectGuesses(guesses, t), length))]
    /\ stack' = <<>>
    /\ pending' = <<>>
    /\ results' = <<>>
    /\ dfsCallCount' = 0
    /\ returned' = <<>>
    /\ progress' = <<>>
    /\ UNCHANGED <<appVars, constraints, callVars, elapsed>>

\* one call of dfs in the search of target t; Promise.all resolves when the
\* last of the four searches has returned.  A search suspends at a timer
\* only on a call whose number is a multiple of YieldEvery, which the
\* searches followed here do not reach.
TargetCall(t) ==
    /\ pc = "running"
    /\ engine = "multi"
    /\ ~targets[t].done
    /\ targets[t].dfsCallCount < MaxCallsEach
    /\ targets' = [targets EXCEPT
                      ![t] = StepSearch(@, options.length, options.maxResults, cancelled)]
    /\ pc' = IF \A u \in 1..4 : targets'[u].done THEN "done" ELSE "running"
    /\ UNCHANGED <<appVars, cancelled, searchVars, callVars, elapsed>>

\* the records of multi-target mode entered and imported: one that solves
\* the first and the last target, and one that solves none
MultiEntries ==
    LET ggggg == S("g", "g", "g", "g", "g")
        ggggx == S("g", "g", "g", "g", "x")
        ggggy == S("g", "g", "g", "g", "y")
    IN  { Record4(S("3", "+", "3", "=", "6"), <<ggggg, ggggx, ggggy, ggggg>>, TRUE),
          Record4(S("1", "+", "2", "=", "3"), <<ggggy, ggggx, ggggy, ggggy>>, FALSE) }

\* the histories of the imported snapshots: one of these records
MultiPool == {<<r>> : r \in MultiEntries}

NextMulti ==
    \/ \E h \in MultiPool : ImportState(h, MinLength, TRUE)
    \/ \E r \in MultiEntries : AddCurrentGuess(r.guess, StatesOf(r), GridsOf(r))
    \/ DeleteLastGuess
    \/ StartSearch4
    \/ \E t \in 1..4 : TargetCall(t)

SpecMulti == Init /\ [][NextMulti]_vars

(***************************************************************************)
(* The history and the controls on their own, in both modes, with the      *)
(* snapshots importState accepts.                                          *)
(***************************************************************************)
\* the mode and the length a snapshot carries: any, importState tests neither
NextHistory ==
    \/ \E r \in HistoryEntries \cup HistoryEntries4 :
           AddCurrentGuess(r.guess, StatesOf(r), GridsOf(r))
    \/ ClearHistory
    \/ DeleteLastGuess
    \/ ToggleMode4
    \/ \E n \in {MinLength - 1, MinLength, MaxLength, MaxLength + 1} : ChangeLength(n)
    \/ \E h \in ImportPool, len \in {0, MinLength - 1, MinLength, MaxLength + 1},
           m4 \in BOOLEAN : ImportState(h, len, m4)

SpecHistory == Init /\ [][NextHistory]_vars

(***************************************************************************)
(* generateCandidates of solver.js: a synchronous search with a wall-clock *)
(* timeout, called with a ConstraintSet and its options.                   *)
(***************************************************************************)
\* the default of the option timeoutMs
DefaultTimeoutMs == 2000

\* the body of the loop over allowedChars: TRUE when it continues without
\* a recursive call
SolverLoopSkips(cons, len, f, ch) ==
    \/ ch = "=" /\ (f.hasEqual \/ f.pos = 0 \/ f.pos = len - 1)
    \/ IsForbidden(cons, ch, f.pos + 1)
    \/ CountSkips(cons, len, f.pos, f.used, ch)

\* the fixed-position branch: TRUE when it returns without a recursive call
SolverFixedSkips(cons, f, ch) ==
    MaxOf(cons, ch) # 0 /\ Use(f.used, ch)[ch] > MaxOf(cons, ch)

\* the frame of a call of dfs that has reached its loop or its fixed branch
SolverNewFrame(cons, c) ==
    [pos |-> c.pos, current |-> c.current, used |-> c.used, hasEqual |-> c.hasEqual,
     fixed |-> FixedAt(cons, c) # Null,
     todo |-> IF FixedAt(cons, c) # Null THEN <<FixedAt(cons, c)>>
              ELSE allowedChars(cons)]

\* runs the pending loops of the stack up to the next recursive call
RECURSIVE SolverAdvance(_, _, _)
SolverAdvance(cons, len, st) ==
    IF st = <<>> THEN [stack |-> <<>>, pending |-> <<>>]
    ELSE
        LET f == st[Len(st)]
            below == SubSeq(st, 1, Len(st) - 1)
        IN  IF f.todo = <<>> THEN SolverAdvance(cons, len, below)
            ELSE
                LET ch == Head(f.todo)
                    rest == Append(below, [f EXCEPT !.todo = Tail(f.todo)])
                    skip == IF f.fixed THEN SolverFixedSkips(cons, f, ch)
                            ELSE SolverLoopSkips(cons, len, f, ch)
                IN  IF skip THEN SolverAdvance(cons, len, rest)
                    ELSE [stack |-> rest, pending |-> <<ChildCall(f, ch)>>]

\* one call of dfs, from its entry to the next recursive call or to the
\* return of the search; stop is the outcome of its first test
SolverStep(stop) ==
    LET c == pending[1]
        len == options.length
        go == ~stop /\ Len(results) < options.maxResults
        found == go /\ c.pos = len /\ LeafAccepts(constraints, c)
        frames == IF go /\ c.pos # len THEN <<SolverNewFrame(constraints, c)>> ELSE <<>>
        nxt == SolverAdvance(constraints, len, stack \o frames)
    IN  [stack |-> nxt.stack, pending |-> nxt.pending,
         results |-> IF found THEN Append(results, c.current) ELSE results]

\* generateCandidates(cons, {length, maxResults, timeoutMs, cancelledRef}):
\* startTime is taken and dfs(0, "", {}, false) is about to be entered
SolverCall(cons, len, cap, timeoutMs, flag) ==
    /\ pc \in {"idle", "done"}
    /\ cancelled' = flag
    /\ pc' = "running"
    /\ engine' = "solver"
    /\ searched' = <<>>
    /\ options' = [length |-> len, maxResults |-> cap, timeoutMs |-> timeoutMs]
    /\ constraints' = cons
    /\ stack' = <<>>
    /\ pending' = <<RootCall>>
    /\ results' = <<>>
    /\ returned' = <<>>
    /\ elapsed' = 0
    /\ UNCHANGED <<appVars, dfsCallCount, progress, targets, callVars>>

\* a call of dfs: it returns at once when cancelledRef.value is set or when
\* Date.now() - startTime > timeoutMs; the search returns its sorted results
\* when the first call has returned
SolverDfs ==
    /\ pc = "running"
    /\ engine = "solver"
    /\ LET step == SolverStep(cancelled \/ elapsed > options.timeoutMs)
       IN  /\ stack' = step.stack
           /\ pending' = step.pending
           /\ results' = step.results
           /\ pc' = IF step.pending = <<>> THEN "done" ELSE "running"
           /\ returned' = IF step.pending = <<>> THEN SortResults(step.results)
                          ELSE returned
    /\ UNCHANGED <<appVars, cancelled, engine, searched, options, constraints,
                   dfsCallCount, progress, callVars, sideVars>>

\* a millisecond passes while the search runs
Tick ==
    /\ pc = "running"
    /\ engine = "solver"
    /\ elapsed < MaxElapsed
    /\ elapsed' = elapsed + 1
    /\ UNCHANGED <<appVars, cancelled, pc, searchVars, callVars, targets>>

\* the ConstraintSets the search is called with: Scenario B's, and the one
\* of "3+3=6" with its last character gray
SolverPool ==
    { buildConstraintsFromGuesses(<<RecScenarioB>>, MinLength),
      buildConstraintsFromGuesses(
          <<Record(S("3", "+", "3", "=", "6"), S("g", "g", "g", "g", "x"), FALSE)>>,
          MinLength) }

NextSolver ==
    \/ \E cons \in SolverPool, cap \in {1, DefaultMaxResults},
          timeoutMs \in {0, 1, DefaultTimeoutMs}, flag \in BOOLEAN :
           SolverCall(cons, MinLength, cap, timeoutMs, flag)
    \/ SolverDfs
    \/ Tick

SpecSolver == Init /\ [][NextSolver]_vars

(***************************************************************************)
(* What the claims are measured against: the reading of the specification. *)
(***************************************************************************)
\* the set of the elements of a sequence
Range(q) == {q[i] : i \in 1..Len(q)}

\* string s satisfies the ConstraintSet cons: fixed positions, excluded
\* characters, forbidden positions, required and maximum counts
Satisfies(cons, s) ==
    /\ \A i \in DOMAIN cons.greens :
           (cons.greens[i] # Null /\ i <= Len(s)) => s[i] = cons.greens[i]
    /\ \A i \in 1..Len(s) : s[i] \notin cons.excluded
    /\ \A ch \in DOMAIN cons.yellowForbiddenPositions :
           \A i \in cons.yellowForbiddenPositions[ch] : i <= Len(s) => s[i] # ch
    /\ \A ch \in DOMAIN cons.requiredCounts : CountChar(s, ch) >= cons.requiredCounts[ch]
    /\ \A ch \in DOMAIN cons.maxCounts : CountChar(s, ch) <= cons.maxCounts[ch]

\* the Wordle feedback of guess against the hidden string E of the same
\* length: green on a match, then yellow from left to right for as many
\* occurrences as E holds outside the green positions, gray otherwise
Feedback(guess, E) ==
    LET free(ch) == Cardinality({j \in 1..Len(E) : E[j] = ch /\ guess[j] # ch})
        before(i) == Cardinality({j \in 1..(i - 1) : guess[j] = guess[i] /\ E[j] # guess[j]})
    IN  [i \in 1..Len(guess) |->
            IF guess[i] = E[i] THEN "g"
            ELSE IF before(i) < free(guess[i]) THEN "y"
            ELSE "x"]

\* every non-solved record of history h carries the feedback of its guess
\* against E
TrueFeedback(h, E) ==
    \A k \in 1..Len(h) :
        h[k].solved \/ (Len(h[k].guess) = Len(E) /\ PatternOf(h[k]) = Feedback(h[k].guess, E))

\* the strings the search is probed with: every string of the minimum
\* length over four characters
ProbeStrings == StringsOver({"0", "1", "-", "="}, MinLength)

RefFail == [ok |-> FALSE, vals |-> <<>>, ops |-> <<>>]

\* the expression s from index i on as operands (runs of decimal digits)
\* separated by single operators
RECURSIVE RefParse(_, _, _)
RefParse(s, i, acc) ==
    IF i > Len(s) \/ s[i] \notin Digits THEN RefFail
    ELSE LET j == DigitRunEnd(s, i)
             vals == Append(acc.vals, DigitsValue(SubSeq(s, i, j), 10, 0))
         IN  IF j = Len(s) THEN [acc EXCEPT !.vals = vals]
             ELSE IF s[j + 1] \in Operators
                 THEN RefParse(s, j + 2, [acc EXCEPT !.vals = vals, !.ops = Append(@, s[j + 1])])
             ELSE RefFail

\* a left side: an optional leading "-" and a well-formed expression
RefLeft(left) ==
    LET neg == left # <<>> /\ left[1] = "-"
        p == RefParse(IF neg THEN Tail(left) ELSE left, 1,
                      [ok |-> TRUE, vals |-> <<>>, ops |-> <<>>])
    IN  [ok |-> p.ok, neg |-> neg, vals |-> p.vals, ops |-> p.ops]

\* the value of operands and operators with "*" and "/" binding tighter,
\* left to right: sum holds the finished terms, term the running product
RECURSIVE RefFold(_, _, _, _, _)
RefFold(vals, ops, k, sum, term) ==
    IF k > Len(ops) THEN NumAdd(sum, term)
    ELSE LET v == Fin(vals[k + 1], 1)
         IN  IF ops[k] = "*" THEN RefFold(vals, ops, k + 1, sum, NumMul(term, v))
             ELSE IF ops[k] = "/" THEN RefFold(vals, ops, k + 1, sum, NumDiv(term, v))
             ELSE IF ops[k] = "+" THEN RefFold(vals, ops, k + 1, NumAdd(sum, term), v)
             ELSE RefFold(vals, ops, k + 1, NumAdd(sum, term), NumNeg(v))

RefValue(l) ==
    RefFold(l.vals, l.ops, 1, Fin(0, 1),
            IF l.neg THEN Fin(0 - l.vals[1], 1) ELSE Fin(l.vals[1], 1))

\* the equation grammar of the specification
RefValid(e) ==
    /\ \A i \in 1..Len(e) : e[i] \in Alphabet
    /\ CountChar(e, "=") = 1
    /\ e[1] # "=" /\ e[Len(e)] # "="
    /\ LET eq == IndexOf(e, "=", 1)
           left == SubSeq(e, 1, eq - 1)
           right == SubSeq(e, eq + 1, Len(e))
       IN  /\ MatchesSignedDigits(right)
           /\ left[1] \notin {"*", "/"}
           /\ RefLeft(left).ok
           /\ NumEqualsInt(RefValue(RefLeft(left)), ParseInt(right))

\* some division of the product chain divides by zero or leaves a remainder;
\* term is the integer value of the running product
RECURSIVE RefBadDivision(_, _, _, _)
RefBadDivision(vals, ops, k, term) ==
    IF k > Len(ops) THEN FALSE
    ELSE LET v == vals[k + 1]
         IN  IF ops[k] = "/"
                 THEN v = 0 \/ term % v # 0 \/ RefBadDivision(vals, ops, k + 1, term \div v)
             ELSE IF ops[k] = "*" THEN RefBadDivision(vals, ops, k + 1, term * v)
             ELSE RefBadDivision(vals, ops, k + 1, v)

\* e has one "=" behind a well-formed left side that holds a division by
\* zero or a division with a remainder
HasBadDivision(e) ==
    /\ CountChar(e, "=") = 1
    /\ IndexOf(e, "=", 1) > 1
    /\ LET l == RefLeft(SubSeq(e, 1, IndexOf(e, "=", 1) - 1))
       IN  l.ok /\ RefBadDivision(l.vals, l.ops, 1, l.vals[1])

\* a finished search that ran to exhaustion
Exhausted ==
    pc = "done" /\ ~cancelled /\ Len(results) < options.maxResults

(***************************************************************************)
(* Claims about the search.                                                *)
(***************************************************************************)
\* C1: every string of the list a search returns, generateCandidatesAsync or
\* generateCandidates, has exactly the length the search was called with and
\* is accepted by isValidEquation.
C1_ResultsAreValidEquations ==
    \A i \in 1..Len(returned) :
        Len(returned[i]) = options.length /\ isValidEquation(returned[i])

\* a search on a length above the minimum has returned results
C1_Witness ==
    /\ pc = "done"
    /\ engine = "async"
    /\ options.length = MinLength + 1
    /\ Len(returned) >= 2

\* C2: in every result of the search each character occurs at least
\* requiredCounts times and at most maxCounts times where these are set, and
\* stands at none of its forbidden positions, fixed positions included.
C2_ResultsRespectCounts ==
    engine = "async" =>
        \A i \in 1..Len(returned) :
            \A ch \in Alphabet :
                /\ ch \in DOMAIN constraints.requiredCounts =>
                       CountChar(returned[i], ch) >= constraints.requiredCounts[ch]
                /\ ch \in DOMAIN constraints.maxCounts =>
                       CountChar(returned[i], ch) <= constraints.maxCounts[ch]
                /\ \A p \in 1..Len(returned[i]) :
                       IsForbidden(constraints, ch, p) => returned[i][p] # ch

\* C3: a search that runs to exhaustion returns every string of length L
\* that the validator accepts and that satisfies the ConstraintSet: no
\* pruning rule discards such a string.  (That it returns nothing else is
\* C1 and C2.)  The strings looked for are those of ProbeStrings.
C3_SearchIsExhaustive ==
    (Exhausted /\ engine = "async" /\ options.length = MinLength) =>
        \A s \in ProbeStrings :
            (Satisfies(constraints, s) /\ isValidEquation(s)) => s \in Range(returned)

\* C4: when every non-solved record of the history carries the true feedback
\* of its guess against one hidden valid equation E, E satisfies the built
\* ConstraintSet and is among the results of the exhaustive search.  E
\* ranges over the strings of ProbeStrings.
C4_AnswerNeverEliminated ==
    (Exhausted /\ engine = "async" /\ options.length = MinLength) =>
        \A E \in ProbeStrings :
            (TrueFeedback(searched, E) /\ isValidEquation(E)) =>
                Satisfies(constraints, E) /\ E \in Range(returned)

\* C5: the exhaustive results for a history are a subset of the exhaustive
\* results for the history without its last record, whatever that record is.
C5_MonotonicTightening ==
    (Exhausted /\ engine = "async" /\ Len(searched) >= 2) =>
        LET H == SubSeq(searched, 1, Len(searched) - 1)
            prev == RunSearch(buildConstraintsFromGuesses(H, options.length),
                              options.length, options.maxResults, FALSE)
        IN  (~prev.cut /\ Len(prev.rs) < options.maxResults) =>
                Range(returned) \subseteq Range(prev.rs)

\* C9: for the single record ("2+2=4", x g x g x) at length 5 the built
\* ConstraintSet excludes "2" and "4" and fixes "+" at index 1 and "=" at
\* index 3 (positions 2 and 4 here); the search with the default cap, when
\* it is not cancelled, returns "3+3=6"; and for every history no result
\* holds a character of the built excluded set.
C9_ScenarioB ==
    /\ (pc # "idle" /\ searched = <<RecScenarioB>> /\ options.length = MinLength) =>
           /\ {"2", "4"} \subseteq constraints.excluded
           /\ constraints.greens[2] = "+"
           /\ constraints.greens[4] = "="
           /\ (pc = "done" /\ ~cancelled /\ options.maxResults = DefaultMaxResults) =>
                  S("3", "+", "3", "=", "6") \in Range(returned)
    /\ \A r \in Range(results) \cup Range(returned) :
           \A i \in 1..Len(r) : r[i] \notin constraints.excluded

\* the search of Scenario B has returned "3+3=6"
C9_Witness ==
    /\ pc = "done"
    /\ engine = "async"
    /\ ~cancelled
    /\ searched = <<RecScenarioB>>
    /\ options.length = MinLength
    /\ S("3", "+", "3", "=", "6") \in Range(returned)
    /\ Len(returned) > 1

(***************************************************************************)
(* Claims about the validator (under SpecValidator).                       *)
(***************************************************************************)
\* C6: isValidEquation accepts a string exactly when it has one "=" that is
\* neither first nor last, a right side of an optional "-" and digits, and a
\* left side that does not start with "*" or "/" and is a well-formed
\* expression over decimal operands whose value, "*" and "/" binding
\* tighter, left to right, a leading "-" negating the first operand, equals
\* the right side.  (Strings below the length floor are left to C8.)
C6_AcceptsExactlyTheGrammar ==
    (verdict # "none" /\ Len(expr) >= MinLength) =>
        (verdict = "valid" <=> RefValid(expr))

\* C7: isValidEquation returns false for every string whose left side holds
\* a division by zero or a division that leaves a remainder, whatever the
\* value of the whole left side.
C7_RejectsInexactDivision ==
    (verdict # "none" /\ HasBadDivision(expr)) => verdict = "invalid"

\* C8 as stated: isValidEquation returns false for every string whose length
\* differs from the configured length and for every string with a character
\* outside the alphabet.
C8_RejectsOtherLengths ==
    (verdict # "none" /\ (Len(expr) # length \/ \E i \in 1..Len(expr) : expr[i] \notin Alphabet))
        => verdict = "invalid"

\* C8 as amended: isValidEquation returns false for every string shorter
\* than five characters and for every string with a character outside the
\* alphabet; it does not compare the length with the configured length.
C8_RejectsShortAndForeign ==
    (verdict # "none" /\ (Len(expr) < MinLength \/ \E i \in 1..Len(expr) : expr[i] \notin Alphabet))
        => verdict = "invalid"

\* a string one character short, otherwise an equation, has been rejected
C8_Witness ==
    /\ verdict = "invalid"
    /\ expr = <<"1", "=", "0", "1">>

(***************************************************************************)
(* Claims about the checker (under SpecChecker).                           *)
(***************************************************************************)
\* C10: against the ConstraintSet of Scenario B the checker rejects the
\* guess "5*5=5" for every pattern of its five cells that marks "*" green at
\* index 1, and its reason names that position (2, counted from 1, as the
\* message prints it) and the character "+" fixed there.
C10_ScenarioC ==
    (report # NoReport /\ guesses = <<RecScenarioB>>
        /\ expr = S("5", "*", "5", "=", "5")
        /\ Len(pattern) = Len(expr) /\ pattern[2] = "g") =>
        report = Invalid("fixedOther", 2, "*", "+")

\* the checker has rejected "5*5=5" with the pattern g g g g g
C10_Witness ==
    /\ report = Invalid("fixedOther", 2, "*", "+")
    /\ guesses = <<RecScenarioB>>
    /\ expr = S("5", "*", "5", "=", "5")
    /\ pattern = S("g", "g", "g", "g", "g")

(***************************************************************************)
(* The gate of addCurrentGuess.                                            *)
(***************************************************************************)
\* the Consistency Checker accepts the entry against the history: in
\* multi-target mode each of its four patterns against the ConstraintSet of
\* that target
PassesChecker(guess, currentStates, colorGrids) ==
    IF mode4
    THEN \A t \in 1..4 :
            checkPatternConsistency(
                guess, colorGrids[t],
                buildConstraintsFromGuesses(ProjectGuesses(guesses, t), length)).valid
    ELSE checkPatternConsistency(
             guess, currentStates, buildConstraintsFromGuesses(guesses, length)).valid

\* C11: addCurrentGuess appends a record to the history only if the
\* Consistency Checker returns valid for it against the ConstraintSet built
\* from the current history (in multi-target mode for each of the four
\* patterns against that target's ConstraintSet); when the checker returns
\* valid = false the history is left unchanged.
C11_CheckGatesEveryAppend ==
    [][ \A r \in HistoryEntries \cup HistoryEntries4 :
            (AddCurrentGuess(r.guess, StatesOf(r), GridsOf(r)) /\ guesses' # guesses)
                => PassesChecker(r.guess, StatesOf(r), GridsOf(r)) ]_vars

(***************************************************************************)
(* The configured length.                                                  *)
(***************************************************************************)
\* C19: in every reachable state of the application, after any sequence of
\* changes of the length field and of imported snapshots, the configured
\* length is an integer in 5..20, so that no search begins with another one.
C19_LengthWithinRange == length \in MinLength..MaxLength

(***************************************************************************)
(* Cancellation, the result cap and the ranking of generateCandidatesAsync.*)
(***************************************************************************)
\* the sequences a and b hold the same elements the same number of times
IsPermutation(a, b) ==
    /\ Len(a) = Len(b)
    /\ \A x \in Range(a) \cup Range(b) :
           Cardinality({i \in 1..Len(a) : a[i] = x})
               = Cardinality({i \in 1..Len(b) : b[i] = x})

\* C12: once the cancellation flag is set while a search is in progress no
\* result is accepted any more, and the list the search returns holds
\* exactly the results accepted before the flag was set.
C12_CancellationKeepsResults ==
    [][ /\ cancelled' => results' = results
        /\ (cancelled' /\ pc' = "done" /\ engine' = "async")
               => IsPermutation(returned', results') ]_vars

\* a cancelled search has returned the results it had found
C12_Witness ==
    /\ pc = "done"
    /\ cancelled
    /\ engine = "async"
    /\ Len(results) >= 2
    /\ IsPermutation(returned, results)

\* C13: once the cancellation flag is set, the explored counter of the
\* search increases by fewer than YieldEvery calls before the search
\* returns, the search suspends no more and emits no further progress event
\* at a yield point.  The flag is set while the search is suspended, at a
\* count that is a multiple of YieldEvery: an increase by YieldEvery is the
\* counter reaching the next multiple.
C13_BoundedResponseToCancellation ==
    [][ (cancelled /\ cancelled' /\ engine = "async") =>
            /\ dfsCallCount' = dfsCallCount \/ dfsCallCount' % YieldEvery # 0
            /\ pc' = "yielded" => pc = "yielded"
            /\ progress' = progress ]_vars

\* C14: at every point of a search and in the returned list the number of
\* accepted results does not exceed the result cap the search was called
\* with, for every cap that is not negative.
C14_ResultCap ==
    options.maxResults >= 0 =>
        /\ Len(results) <= options.maxResults
        /\ Len(returned) <= options.maxResults

\* a search has filled a cap of one result and went on calling dfs
C14_Witness ==
    /\ pc = "running"
    /\ engine = "async"
    /\ options.maxResults = 1
    /\ Len(results) = 1
    /\ pending # <<>>

\* the place of x in the sequence q
PlaceIn(q, x) == CHOOSE i \in 1..Len(q) : q[i] = x

\* number of distinct characters of e
DistinctChars(e) == Cardinality(Range(e))

\* number of + - * / characters of e
OperatorChars(e) == Cardinality({i \in 1..Len(e) : e[i] \in Operators})

\* C15: the returned list is ordered by non-increasing score, the score being
\* 1.5 x (distinct characters) - (operator characters, "=" not counted), so
\* that "1+2=3" scores 6.5 (13 when doubled) and a result with more distinct
\* characters and fewer operators precedes one with fewer distinct
\* characters and more operators; results of equal score keep the order of
\* their discovery.
C15_Ranking ==
    /\ scoreCandidate(S("1", "+", "2", "=", "3")) = 13
    /\ \A e \in Range(returned) :
           scoreCandidate(e) = 3 * DistinctChars(e) - 2 * OperatorChars(e)
    /\ (pc = "done" /\ engine = "async") =>
           \A i, j \in 1..Len(returned) :
               /\ i < j => scoreCandidate(returned[i]) >= scoreCandidate(returned[j])
               /\ (i < j /\ scoreCandidate(returned[i]) = scoreCandidate(returned[j]))
                      => PlaceIn(results, returned[i]) < PlaceIn(results, returned[j])
               /\ (DistinctChars(returned[i]) > DistinctChars(returned[j])
                      /\ OperatorChars(returned[i]) < OperatorChars(returned[j])) => i < j

\* a finished search has moved results, and has kept results of equal score
\* in their order
C15_Witness ==
    /\ pc = "done"
    /\ engine = "async"
    /\ ~cancelled
    /\ returned # results
    /\ \E i, j \in 1..Len(returned) :
           i < j /\ scoreCandidate(returned[i]) = scoreCandidate(returned[j])
    /\ \E i, j \in 1..Len(returned) :
           DistinctChars(returned[i]) > DistinctChars(returned[j])
               /\ OperatorChars(returned[i]) < OperatorChars(returned[j])

(***************************************************************************)
(* Multi-target mode (under SpecMulti).                                    *)
(***************************************************************************)
\* C16: in multi-target mode, whatever the order in which the dfs calls of
\* the four searches are interleaved, when the searches have returned
\* without cancellation the ranked list of each target is the list its
\* search returns when it runs alone from that target's ConstraintSet.
C16_TargetsIndependent ==
    (engine = "multi" /\ pc = "done" /\ ~cancelled) =>
        \A t \in 1..4 :
            /\ targets[t].constraints =
                   buildConstraintsFromGuesses(ProjectGuesses(searched, t), options.length)
            /\ targets[t].returned =
                   SortResults(RunSearch(targets[t].constraints, options.length,
                                         options.maxResults, FALSE).rs)

\* the four searches have returned, two of them with a result and one with
\* none
C16_Witness ==
    /\ engine = "multi"
    /\ pc = "done"
    /\ ~cancelled
    /\ targets[1].returned # <<>>
    /\ targets[4].returned # <<>>
    /\ targets[2].returned = <<>>
    /\ \A t \in 1..4 : targets[t].dfsCallCount > 0

\* C17: in multi-target mode the ConstraintSet and the result list of
\* target t are those obtained from any history that holds the same guesses
\* and the same patterns for t: changing a record's pattern for another
\* target changes neither.  The ConstraintSets are looked at when the
\* searches start and when they have returned; no call of dfs writes them.
\* The histories compared differ from the searched one in one record only,
\* either by its pattern for one target other than t or by its solved mark.
C17_TargetInputsIndependent ==
    LET OtherPatterns ==
            {Gray(MinLength), S("g", "g", "g", "g", "g"), S("y", "g", "g", "g", "x")}
        VariantsFor(h, t) ==
            {[h EXCEPT ![k].patterns[u] = alt] :
                k \in {j \in 1..Len(h) : h[j].is4Mode}, u \in (1..4) \ {t},
                alt \in OtherPatterns}
            \cup {[h EXCEPT ![k].solved = ~@] : k \in 1..Len(h)}
    IN
    (engine = "multi" /\ (pc = "done" \/ \A u \in 1..4 : targets[u].dfsCallCount = 0)) =>
        \A t \in 1..4 : \A h \in VariantsFor(searched, t) :
            LET cons == buildConstraintsFromGuesses(ProjectGuesses(h, t), options.length)
            IN  /\ targets[t].constraints = cons
                /\ (pc = "done" /\ ~cancelled) =>
                       targets[t].returned =
                           SortResults(RunSearch(cons, options.length,
                                                 options.maxResults, FALSE).rs)

\* the searches of a history of two records with different patterns for the
\* targets have returned, with different lists for the first two targets
C17_Witness ==
    /\ engine = "multi"
    /\ pc = "done"
    /\ Len(searched) = 2
    /\ \A k \in 1..2 : searched[k].is4Mode
                          /\ searched[k].patterns[1] # searched[k].patterns[2]
    /\ targets[1].constraints # targets[2].constraints
    /\ targets[1].returned # targets[2].returned

\* C18: the ConstraintSet built for a search equals the one built from the
\* searched history with its solved records removed, in single-target mode
\* and for each of the four targets of multi-target mode.
C18_SolvedRecordsExcluded ==
    LET Unsolved(h) == SelectSeq(h, LAMBDA r : ~r.solved)
    IN
    /\ engine = "async" =>
           constraints = buildConstraintsFromGuesses(Unsolved(searched), options.length)
    /\ engine = "multi" =>
           \A t \in 1..4 :
               targets[t].constraints =
                   buildConstraintsFromGuesses(ProjectGuesses(Unsolved(searched), t),
                                               options.length)

(***************************************************************************)
(* The wall-clock timeout (under SpecSolver).                              *)
(***************************************************************************)
\* C20: a search called with timeoutMs = 0 is not stopped by elapsed time:
\* each of its dfs calls does what it does on a clock that stands still, so
\* that it returns without work only when the flag is set or the result cap
\* is reached.
C20_ZeroTimeoutIsUnbounded ==
    [][ (SolverDfs /\ options.timeoutMs = 0) =>
            LET step == SolverStep(cancelled)
            IN  /\ stack' = step.stack
                /\ pending' = step.pending
                /\ results' = step.results ]_vars

C22_ResultsHonourPresence ==
    engine = "async" =>
        \A e \in Range(results) \cup Range(returned) :
            \A k \in 1..Len(searched) :
                ~searched[k].solved =>
                    \A ch \in Alphabet :
                        CountChar(e, ch) >=
                            RequiredIn(searched[k].guess, PatternOf(searched[k]), ch)

(***************************************************************************)
(* Adjacency in the results (under SpecAsync).                             *)
(***************************************************************************)
\* C23: in every result of a search an operator that stands directly behind
\* an operator or behind "=" is a "-", and it does not stand behind a "-".
C23_AdjacencyInResults ==
    engine = "async" =>
        \A e \in Range(results) \cup Range(returned) :
            \A p \in 2..Len(e) :
                (e[p] \in Operators /\ e[p - 1] \in Operators \cup {"="}) =>
                    (e[p] = "-" /\ e[p - 1] # "-")

(***************************************************************************)
(* The aggregation of the Constraint Builder (under Spec).                 *)
(***************************************************************************)
\* C24: for every character c the built requiredCounts[c] (0 when there is
\* no entry) is max(0, M - F), M being the largest green + yellow count of c
\* within one non-solved guess and F the number of fixed positions that
\* hold c; maxCounts[c] is present exactly when some guess marks c both gray
\* and green or yellow, and is the smallest green + yellow count among those.
C24_AggregationRule ==
    LET \* the records of h the builder reads
        Unskipped(h) == {k \in 1..Len(h) : ~h[k].solved}
        \* the largest element of the set of naturals s, 0 when it is empty
        SetMax(s) == IF s = {} THEN 0 ELSE CHOOSE x \in s : \A y \in s : y <= x
        \* the smallest element of the non-empty set of naturals s
        SetMin(s) == CHOOSE x \in s : \A y \in s : x <= y
        \* M: the largest green + yellow count of ch within one non-solved guess
        LargestRequirement(h, ch) ==
            SetMax({RequiredIn(h[k].guess, PatternOf(h[k]), ch) : k \in Unskipped(h)})
        \* the green + yellow counts of ch in the guesses that also mark it gray
        CapsOf(h, ch) ==
            {RequiredIn(h[k].guess, PatternOf(h[k]), ch) :
                k \in {j \in Unskipped(h) :
                          /\ ColorCount(h[j].guess, PatternOf(h[j]), ch, "x") > 0
                          /\ RequiredIn(h[j].guess, PatternOf(h[j]), ch) > 0}}
    IN
    engine \in {"async", "sync"} =>
        \A ch \in Alphabet :
            /\ RequiredOf(constraints, ch) =
                   Max(0, LargestRequirement(searched, ch)
                              - GreenCount(constraints.greens, ch))
            /\ (ch \in DOMAIN constraints.maxCounts) <=> (CapsOf(searched, ch) # {})
            /\ (ch \in DOMAIN constraints.maxCounts) =>
                   constraints.maxCounts[ch] = SetMin(CapsOf(searched, ch))

\* a ConstraintSet built from two records that mark one character a different
\* number of times, with a requirement left after the subtraction and a cap
C24_Witness ==
    /\ engine \in {"async", "sync"}
    /\ Len(searched) = 2
    /\ \E ch \in Alphabet :
           /\ RequiredIn(searched[1].guess, PatternOf(searched[1]), ch) >
                  RequiredIn(searched[2].guess, PatternOf(searched[2]), ch)
           /\ RequiredIn(searched[2].guess, PatternOf(searched[2]), ch) > 0
           /\ GreenCount(constraints.greens, ch) > 0
    /\ \E ch \in Alphabet :
           RequiredOf(constraints, ch) > 0 /\ GreenCount(constraints.greens, ch) > 0
    /\ DOMAIN constraints.maxCounts # {}

(***************************************************************************)
(* The invariant of the ConstraintSet (under Spec).                        *)
(***************************************************************************)
\* C25: in the ConstraintSet the builder returns, for a consistent and for a
\* contradictory history alike, no excluded character has a positive
\* requiredCounts entry or holds a fixed position.
C25_ExcludedNeverRequired ==
    engine \in {"async", "sync"} =>
        \A ch \in constraints.excluded :
            /\ RequiredOf(constraints, ch) = 0
            /\ GreenCount(constraints.greens, ch) = 0

\* a ConstraintSet built from a history in which one record marks a
\* character gray only and another marks it green: it is fixed, not excluded
C25_Witness ==
    /\ engine \in {"async", "sync"}
    /\ constraints.excluded # {}
    /\ \E ch \in Alphabet :
           /\ GreenCount(constraints.greens, ch) > 0
           /\ ch \notin constraints.excluded
           /\ \E k \in {j \in 1..Len(searched) : ~searched[j].solved} :
                  /\ ColorCount(searched[k].guess, PatternOf(searched[k]), ch, "x") > 0
                  /\ RequiredIn(searched[k].guess, PatternOf(searched[k]), ch) = 0

(***************************************************************************)
(* The verdict of the Consistency Checker (under SpecChecker).             *)
(***************************************************************************)
\* C26: checkPatternConsistency returns valid = true exactly when the pattern
\* has the length of the guess and the marks contradict the ConstraintSet in
\* none of the five ways; otherwise it returns valid = false with a reason.
C26_CheckerVerdict ==
    report # NoReport =>
        LET \* one of the five contradictions between the marks pat of guess
            \* and the ConstraintSet c
            Contradicts(guess, pat, c) ==
                \/ \E i \in 1..Len(guess) :
                       LET fixed == IF i \in DOMAIN c.greens THEN c.greens[i] ELSE Null
                       IN  \/ fixed # Null /\ fixed # guess[i] /\ pat[i] = "g"
                           \/ fixed # Null /\ fixed = guess[i] /\ pat[i] # "g"
                           \/ guess[i] \in c.excluded /\ pat[i] \in {"g", "y"}
                           \/ IsForbidden(c, guess[i], i) /\ pat[i] = "g"
                \/ \E ch \in DOMAIN c.maxCounts :
                       RequiredIn(guess, pat, ch) > c.maxCounts[ch]
            cons == buildConstraintsFromGuesses(guesses, length)
            fine == Len(pattern) = Len(expr) /\ ~Contradicts(expr, pattern, cons)
        IN  /\ report.valid <=> fine
            /\ ~report.valid => report.kind # "none"

(***************************************************************************)
(* The two searches of app.js (under SpecBoth).                            *)
(***************************************************************************)
\* C27: when a search has run to exhaustion, the other search of app.js, run
\* to exhaustion on the same ConstraintSet and length, returns the same set
\* of results: the priority order of generateCandidatesAsync changes the
\* order of discovery only.
C27_OrderingOnly ==
    (Exhausted /\ engine \in {"async", "sync"}) =>
        LET other == RunSearch(constraints, options.length, options.maxResults,
                               engine = "async")
        IN  (~other.cut /\ Len(other.rs) < options.maxResults) =>
                Range(other.rs) = Range(returned)

\* the asynchronous search has run to exhaustion with several results, which
\* the synchronous search finds in another order
C27_Witness ==
    /\ Exhausted
    /\ engine = "async"
    /\ Len(returned) >= 2
    /\ LET other == RunSearch(constraints, options.length, options.maxResults, TRUE)
       IN  /\ ~other.cut
           /\ other.rs # results
           /\ Range(other.rs) = Range(results)

(***************************************************************************)
(* The progress stream (under SpecAsync).                                  *)
(***************************************************************************)
\* C28: the events that report a result are, in their order, the accepted
\* results, each once and with found equal to its place; along the stream
\* found and explored never decrease and explored never passes the number
\* of calls made; a call of dfs adds one to the explored counter, and a
\* result is reported by the call that accepts it, with the counter of that
\* moment.
C28_ProgressStream ==
    /\ [](engine = "async" =>
            /\ LET ResultReports == SelectSeq(progress, LAMBDA ev : ev.newResult # Null)
               IN  /\ Len(ResultReports) = Len(results)
                   /\ \A k \in 1..Len(results) :
                          /\ ResultReports[k].newResult = results[k]
                          /\ ResultReports[k].found = k
            /\ \A i, j \in 1..Len(progress) :
                   i <= j => /\ progress[i].found <= progress[j].found
                             /\ progress[i].explored <= progress[j].explored
            /\ \A i \in 1..Len(progress) : progress[i].explored <= dfsCallCount)
    /\ [][ /\ DfsCall => dfsCallCount' = dfsCallCount + 1
           /\ Resume => dfsCallCount' = dfsCallCount
           /\ (engine = "async" /\ engine' = "async" /\ Len(results') > Len(results)) =>
                  /\ Len(results') = Len(results) + 1
                  /\ progress'[Len(progress')] =
                         [found |-> Len(results'), explored |-> dfsCallCount',
                          current |-> results'[Len(results')],
                          newResult |-> results'[Len(results')]] ]_vars

\* a search has reported several results and then the progress of a yield
\* point, which counts them
C28_Witness ==
    /\ engine = "async"
    /\ Len(results) >= 2
    /\ \E i, j \in 1..Len(progress) :
           /\ i < j
           /\ progress[i].newResult # Null
           /\ progress[j].newResult = Null
           /\ progress[j].found = Len(results)
           /\ progress[j].explored = YieldEvery

(***************************************************************************)
(* Termination (under SpecFair).                                           *)
(***************************************************************************)
\* C29: a search that has been started returns: whether it exhausts the
\* tree, reaches the result cap or is cancelled, it is eventually done; and
\* the calls of dfs that are open at one time, the one being entered
\* included, never number more than L + 1.  The calls that fairness drives
\* are exactly the steps of DfsCall.
C29_SearchTerminates ==
    /\ [](engine = "async" => Len(stack) + Len(pending) <= options.length + 1)
    /\ (engine = "async" /\ pc \in {"running", "yielded"}) ~> (pc = "done")
    /\ [][DfsCall <=> DfsCalled]_vars

\* a search has returned after it was suspended at a yield point and resumed
C29_Witness ==
    /\ pc = "done"
    /\ engine = "async"
    /\ ~cancelled
    /\ dfsCallCount > YieldEvery
    /\ \E i \in 1..Len(progress) : progress[i].newResult = Null

(***************************************************************************)
(* The cancellation flag across searches (under SpecFair).                 *)
(***************************************************************************)
\* C30: startSearch clears the cancellation flag, whatever the search
\* before it left there; only cancelSearch sets the flag, and it changes
\* nothing else; so a search that ends with the flag clear was not stopped,
\* and returns what the search of its constraints returns when it is left
\* alone, also when the search before it was cancelled.
C30_FlagClearedAtStart ==
    /\ [][StartSearch => ~cancelled']_vars
    /\ [][(cancelled' /\ ~cancelled) =>
              (CancelSearch /\ pc \in {"yielded", "waiting"})]_vars
    /\ []((engine = "async" /\ pc = "running" /\ dfsCallCount = 0) => ~cancelled)
    /\ []((engine = "async" /\ pc = "done" /\ ~cancelled) =>
              returned = SortResults(RunSearch(constraints, options.length,
                                               options.maxResults, FALSE).rs))

\* a cancelled search has returned, its flag is still set, and startSearch
\* can be called on a history
C30_Witness ==
    /\ pc = "done"
    /\ engine = "async"
    /\ cancelled
    /\ guesses # <<>>
    /\ ~mode4

====
